---------------------------- MODULE Spec2Model ----------------------------
(***************************************************************************)
(* A model of the few-shot example selection core of the travel assistant: *)
(*   app/services/few_shot_selector.py  (FewShotSelector)                  *)
(*   app/services/example_cache.py      (ExampleCache)                     *)
(*   app/services/user_history.py       (UserHistoryManager)               *)
(*                                                                         *)
(* Python strings are sequences of one-character strings, so that lower(), *)
(* split() and replace() are computed as str computes them.  Python floats *)
(* are exact rationals <<numerator, denominator>> in lowest terms.  The    *)
(* pass-through trip fields travel_dates, flight_summary, hotel_summary,   *)
(* itinerary_highlights and timestamp are copied by the operations         *)
(* modelled here and never read by them; the trip records leave them out.  *)
(***************************************************************************)
EXTENDS Integers, Sequences, FiniteSets, TLC

(***************************************************************************)
(* Bounds of the model.                                                    *)
(***************************************************************************)
\* Calls of add_trip a behaviour of the history specifications may make.
MaxAdds == 12
\* Calls (of any operation) a behaviour of the concurrent specification makes.
MaxCalls == 3
\* Operations a behaviour of the cache specification may make.
MaxCacheOps == 4
\* Operations a behaviour of the selector specification may make.
MaxSelOps == 3
\* Operations and faults a behaviour of the fault specification may make.
MaxFaultOps == 4
\* Requests and add_trip calls a behaviour of the request specification may make.
MaxRequests == 3
\* Operations a behaviour of the read specification may make.
MaxReadOps == 4
\* Calls the coroutines of the lock specification make between them.
MaxLockCalls == 4
\* Operations a behaviour of the stale-cache specification may make.
MaxStaleOps == 5
\* Operations a behaviour of the fingerprint specification may make.
MaxKeyOps == 3

(***************************************************************************)
(* Python str as a sequence of characters.                                 *)
(***************************************************************************)
\* str.lower() on one character: the upper-case letters of the alphabet used.
LowerChar(c) ==
    CASE c = "T" -> "t"
      [] c = "J" -> "j"
      [] c = "P" -> "p"
      [] c = "S" -> "s"
      [] c = "M" -> "m"
      [] OTHER -> c

\* str.lower()
lower(s) == [i \in 1..Len(s) |-> LowerChar(s[i])]

\* str.replace(old, new) for one-character old and new
replace(s, old, new) == [i \in 1..Len(s) |-> IF s[i] = old THEN new ELSE s[i]]

Whitespace == {" "}

RECURSIVE SplitAcc(_, _, _)
SplitAcc(s, cur, out) ==
    IF s = <<>>
    THEN IF cur = <<>> THEN out ELSE Append(out, cur)
    ELSE IF Head(s) \in Whitespace
         THEN SplitAcc(Tail(s), <<>>, IF cur = <<>> THEN out ELSE Append(out, cur))
         ELSE SplitAcc(Tail(s), Append(cur, Head(s)), out)

\* str.split(): the maximal runs of non-whitespace, in order
split(s) == SplitAcc(s, <<>>, <<>>)

RECURSIVE SplitOnAcc(_, _, _, _)
SplitOnAcc(s, sep, cur, out) ==
    IF s = <<>>
    THEN Append(out, cur)
    ELSE IF Head(s) = sep
         THEN SplitOnAcc(Tail(s), sep, <<>>, Append(out, cur))
         ELSE SplitOnAcc(Tail(s), sep, Append(cur, Head(s)), out)

\* str.split(sep): the pieces between separators, empty pieces kept
split_on(s, sep) == SplitOnAcc(s, sep, <<>>, <<>>)

RECURSIVE LStrip(_)
LStrip(s) == IF s # <<>> /\ Head(s) \in Whitespace THEN LStrip(Tail(s)) ELSE s

RECURSIVE RStrip(_)
RStrip(s) ==
    IF s # <<>> /\ s[Len(s)] \in Whitespace THEN RStrip(SubSeq(s, 1, Len(s) - 1)) ELSE s

\* str.strip()
strip(s) == RStrip(LStrip(s))

RECURSIVE join(_, _)
\* sep.join(words)
join(sep, words) ==
    IF words = <<>> THEN <<>>
    ELSE IF Len(words) = 1 THEN words[1]
    ELSE words[1] \o sep \o join(sep, Tail(words))

\* F applied to the value of e, with e evaluated once
Bind(e, F(_)) == CHOOSE r \in {F(x) : x \in {e}} : TRUE

ToSet(seq) == {seq[i] : i \in 1..Len(seq)}

\* seq[:n] for n >= 0
Prefix(seq, n) == SubSeq(seq, 1, IF n < Len(seq) THEN n ELSE Len(seq))

\* dict.get(key, default)
Get(d, key, default) == IF key \in DOMAIN d THEN d[key] ELSE default

(***************************************************************************)
(* Python float as an exact rational in lowest terms.                      *)
(***************************************************************************)
RECURSIVE GCD(_, _)
GCD(a, b) == IF b = 0 THEN a ELSE GCD(b, a % b)

Abs(n) == IF n < 0 THEN -n ELSE n

Rat(n, d) ==
    LET g == GCD(Abs(n), d)
    IN  IF n = 0 THEN <<0, 1>> ELSE <<n \div g, d \div g>>

RAdd(x, y) == Rat(x[1] * y[2] + y[1] * x[2], x[2] * y[2])
RMul(x, y) == Rat(x[1] * y[1], x[2] * y[2])
RLe(x, y) == x[1] * y[2] <= y[1] * x[2]
RLt(x, y) == x[1] * y[2] < y[1] * x[2]
RMin(x, y) == IF RLe(x, y) THEN x ELSE y
RMax(x, y) == IF RLe(x, y) THEN y ELSE x

(***************************************************************************)
(* FewShotSelector.calculate_similarity_score                              *)
(***************************************************************************)
HIGH_SIMILARITY_THRESHOLD == Rat(70, 100)
MEDIUM_SIMILARITY_THRESHOLD == Rat(40, 100)

stopwords ==
    { <<"a", "n", "d">>, <<"t", "h", "e">>, <<"a">>, <<"a", "n">>, <<"o", "r">>,
      <<"b", "u", "t">>, <<"i", "n">>, <<"o", "n">>, <<"a", "t">>, <<"t", "o">>,
      <<"f", "o", "r">> }

\* set(word.strip() for word in dest.replace(",", " ").split()) of dest.lower()
DestParts(dest) == {strip(w) : w \in ToSet(split(replace(lower(dest), ",", " ")))}

\* fault: the stopwords are kept among the preference words
WithStopwords(prefs) ==
    {p \in ToSet(split(replace(lower(prefs), ",", " "))) : p # <<>>}

\* the preference words of a string, stopwords and empty words removed
PrefWords(prefs) ==
    {p \in ToSet(split(replace(lower(prefs), ",", " "))) : p # <<>> /\ p \notin stopwords}

\* the weighted sum of lines 50-99, before the cap
RawScore(trip, destination, preferences) ==
    LET trip_parts == DestParts(Get(trip, "destination", <<>>))
        current_parts == DestParts(destination)
        destScore ==
            IF trip_parts \cap current_parts # {}
            THEN RMul(Rat(4, 10),
                      Rat(Cardinality(trip_parts \cap current_parts),
                          Cardinality(trip_parts \cup current_parts)))
            ELSE Rat(0, 1)
        trip_prefs == PrefWords(Get(trip, "preferences", <<>>))
        current_prefs == PrefWords(preferences)
        prefScore ==
            IF trip_prefs # {} /\ current_prefs # {}
               /\ Cardinality(trip_prefs \cup current_prefs) > 0
            THEN RMul(Rat(4, 10),
                      Rat(Cardinality(trip_prefs \cap current_prefs),
                          Cardinality(trip_prefs \cup current_prefs)))
            ELSE Rat(0, 1)
        rating == Get(trip, "satisfaction_rating", 0)
        ratingScore ==
            IF rating > 0 THEN RMul(Rat(2, 10), Rat(rating, 5)) ELSE Rat(0, 1)
    IN  RAdd(RAdd(destScore, prefScore), ratingScore)

\* fault: "return score", the cap of line 101 left out
UncappedScore(trip, destination, preferences) ==
    RawScore(trip, destination, preferences)

calculate_similarity_score(trip, destination, preferences) ==
    RMin(RawScore(trip, destination, preferences), Rat(1, 1))

(***************************************************************************)
(* Stable descending sort (list.sort(key=..., reverse=True)) of a sequence *)
(* of records with a rational field "key", and Counter.most_common.        *)
(***************************************************************************)
RECURSIVE InsertSorted(_, _)
\* fault: item goes before the elements whose key equals its own, so equal
\* keys end in reverse order
InsertBeforeTies(sorted, item) ==
    IF sorted = <<>> THEN <<item>>
    ELSE IF RLe(Head(sorted).key, item.key) THEN <<item>> \o sorted
    ELSE <<Head(sorted)>> \o InsertSorted(Tail(sorted), item)

\* item goes after every element whose key is >= its own
InsertSorted(sorted, item) ==
    IF sorted = <<>> THEN <<item>>
    ELSE IF RLt(Head(sorted).key, item.key) THEN <<item>> \o sorted
    ELSE <<Head(sorted)>> \o InsertSorted(Tail(sorted), item)

RECURSIVE SortDesc(_)
\* fault: the sort left out
Unsorted(items) == items

SortDesc(items) ==
    IF items = <<>> THEN <<>>
    ELSE InsertSorted(SortDesc(SubSeq(items, 1, Len(items) - 1)), items[Len(items)])

RECURSIVE Distinct(_)
\* the distinct elements of a sequence, in order of first occurrence
Distinct(seq) ==
    IF seq = <<>> THEN <<>>
    ELSE LET init == Distinct(SubSeq(seq, 1, Len(seq) - 1))
             x == seq[Len(seq)]
         IN  IF x \in ToSet(init) THEN init ELSE Append(init, x)

Count(seq, x) == Cardinality({i \in 1..Len(seq) : seq[i] = x})

\* fault: most_common() for most_common(n), every element is kept
most_common_all(seq, n) ==
    LET elems == Distinct(seq)
        counted == [i \in 1..Len(elems) |->
                       [key |-> Rat(Count(seq, elems[i]), 1), val |-> elems[i]]]
        sorted == SortDesc(counted)
    IN  [i \in 1..Len(sorted) |-> sorted[i].val]

\* [x for x, _ in Counter(seq).most_common(n)]
most_common(seq, n) ==
    LET elems == Distinct(seq)
        counted == [i \in 1..Len(elems) |->
                       [key |-> Rat(Count(seq, elems[i]), 1), val |-> elems[i]]]
        sorted == SortDesc(counted)
    IN  Prefix([i \in 1..Len(sorted) |-> sorted[i].val], n)

RECURSIVE Sum(_)
Sum(seq) == IF seq = <<>> THEN 0 ELSE Head(seq) + Sum(Tail(seq))

RECURSIVE Concat(_)
\* the concatenation of a sequence of sequences
Concat(seqs) == IF seqs = <<>> THEN <<>> ELSE Head(seqs) \o Concat(Tail(seqs))

\* round(total / n, 2) for integers total >= 0, n > 0: hundredths, half to even
Round2(total, n) ==
    LET q == (100 * total) \div n
        r == (100 * total) % n
        up == 2 * r > n \/ (2 * r = n /\ q % 2 = 1)
    IN  Rat(IF up THEN q + 1 ELSE q, 100)

\* round(x, 3) for a rational x >= 0: thousandths, half to even
Round3(x) ==
    LET q == (1000 * x[1]) \div x[2]
        r == (1000 * x[1]) % x[2]
        up == 2 * r > x[2] \/ (2 * r = x[2] /\ q % 2 = 1)
    IN  Rat(IF up THEN q + 1 ELSE q, 1000)

(***************************************************************************)
(* UserHistoryManager: the records and the synchronous part of add_trip.   *)
(***************************************************************************)
MAX_RECENT_TRIPS == 10

EmptySummary ==
    [ totalTrips |-> 0,
      favoriteDestinations |-> <<>>,
      preferencePatterns |-> <<>>,
      avgSatisfactionRating |-> Rat(0, 1),
      avgTokenUsage |-> 0,
      avgLatencyMs |-> 0 ]

\* the record of _ensure_history_file_exists and of get_user_data's fallback
GuestRecord ==
    [name |-> <<"Guest User">>, recentTrips |-> <<>>, historySummary |-> EmptySummary]

\* the record add_trip creates for a user it has not seen
NewUserRecord(user_id) ==
    [name |-> <<"User", user_id>>, recentTrips |-> <<>>, historySummary |-> EmptySummary]

\* the document _ensure_history_file_exists writes
DefaultHistory == [u \in {"default_user"} |-> GuestRecord]

RECURSIVE ArchivePrefs(_, _)
\* the loop of _archive_trip_to_summary over the comma-separated preferences
ArchivePrefs(patterns, prefs) ==
    IF prefs = <<>> THEN patterns
    ELSE LET pref == lower(strip(Head(prefs)))
             next == IF pref # <<>> /\ pref \notin ToSet(patterns) /\ Len(patterns) < 20
                     THEN Append(patterns, pref)
                     ELSE patterns
         IN  ArchivePrefs(next, Tail(prefs))

_archive_trip_to_summary(summary, trip) ==
    LET dest == trip.destination
        favs == summary.favoriteDestinations
        favs2 == IF dest \notin ToSet(favs) /\ Len(favs) < 10
                 THEN Append(favs, dest) ELSE favs
    IN  [summary EXCEPT
            !.favoriteDestinations = favs2,
            !.preferencePatterns =
                ArchivePrefs(@, split_on(Get(trip, "preferences", <<>>), ","))]

\* [t[field] for t in trips if t[field] > 0]
Positive(trips, field) ==
    LET idx == {i \in 1..Len(trips) : trips[i][field] > 0}
        RECURSIVE Pick(_)
        Pick(i) == IF i > Len(trips) THEN <<>>
                   ELSE (IF i \in idx THEN <<trips[i][field]>> ELSE <<>>) \o Pick(i + 1)
    IN  Pick(1)

_update_summary(summary, recent_trips) ==
    IF recent_trips = <<>> THEN summary
    ELSE
    LET ratings == Positive(recent_trips, "satisfaction_rating")
        tokens == Positive(recent_trips, "token_usage")
        latencies == Positive(recent_trips, "latency_ms")
        destinations == [i \in 1..Len(recent_trips) |-> recent_trips[i].destination]
        all_prefs ==
            Concat([i \in 1..Len(recent_trips) |->
                       split(replace(lower(recent_trips[i].preferences), ",", " "))])
    IN  [summary EXCEPT
            !.totalTrips = summary.totalTrips,
            !.avgSatisfactionRating =
                IF ratings # <<>> THEN Round2(Sum(ratings), Len(ratings)) ELSE @,
            !.avgTokenUsage =
                IF tokens # <<>> THEN Sum(tokens) \div Len(tokens) ELSE @,
            !.avgLatencyMs =
                IF latencies # <<>> THEN Sum(latencies) \div Len(latencies) ELSE @,
            !.favoriteDestinations = most_common(destinations, 10),
            !.preferencePatterns = most_common(all_prefs, 20)]

\* the trip record add_trip builds (lines 230-243)
NewTrip(user, user_id, args) ==
    [ id |-> <<"trip", user_id, user.historySummary.totalTrips + 1>>,
      destination |-> args.destination,
      preferences |-> args.preferences,
      satisfaction_rating |-> args.satisfaction_rating,
      token_usage |-> args.token_usage,
      latency_ms |-> args.latency_ms ]

\* fault: pop() for pop(0), the newest trip leaves the window
PopNewest(trips) == SubSeq(trips, 1, Len(trips) - 1)

\* the window after user["recentTrips"].pop(0) (line 251)
PopOldest(trips) == Tail(trips)

\* add_trip between its load_history and its save_history (lines 210-255):
\* the users of the loaded document after the trip is added
AddTripToHistory(users, user_id, args) ==
    LET users1 == IF user_id \in DOMAIN users THEN users
                  ELSE [u \in DOMAIN users \cup {user_id} |->
                           IF u = user_id THEN NewUserRecord(user_id) ELSE users[u]]
        user == users1[user_id]
        appended == Append(user.recentTrips, NewTrip(user, user_id, args))
        over == Len(appended) > MAX_RECENT_TRIPS
        recent == IF over THEN PopOldest(appended) ELSE appended
        archived == IF over THEN _archive_trip_to_summary(user.historySummary, Head(appended))
                    ELSE user.historySummary
    IN  [users1 EXCEPT ![user_id] =
            [@ EXCEPT !.recentTrips = recent,
                      !.historySummary = _update_summary(archived, recent)]]

\* get_user_data on a loaded document (lines 123-144)
UserData(users, user_id) ==
    IF user_id \notin DOMAIN users
    THEN Get(users, "default_user", GuestRecord)
    ELSE users[user_id]

(***************************************************************************)
(* ExampleCache.  The object is [cache, stats]: cache is the OrderedDict   *)
(* as a sequence of [key, val] in access order (least recently used        *)
(* first), stats the dict of per-key statistics.  datetime.now() is the    *)
(* argument t, in days.  None is <<>> and a present value v is <<v>>.      *)
(***************************************************************************)
\* ExampleCache(max_size=...): the capacity the instance is built with
max_size == 2

EmptyCache == [cache |-> <<>>, stats |-> <<>>]

\* fault: every preference word goes into the key, "[:5]" left out
KeyOfAllWords(destination, preferences) ==
    lower(destination) \o <<"_">> \o join(<<"_">>, split(lower(preferences)))

_generate_key(destination, preferences) ==
    lower(destination) \o <<"_">> \o join(<<"_">>, Prefix(split(lower(preferences)), 5))

Keys(cache) == [i \in 1..Len(cache) |-> cache[i].key]

HasKey(cache, key) == \E i \in 1..Len(cache) : cache[i].key = key

\* cache[key]
Lookup(cache, key) == cache[CHOOSE i \in 1..Len(cache) : cache[i].key = key].val

\* del cache[key]
DelKey(cache, key) == SelectSeq(cache, LAMBDA e : e.key # key)

\* fault: get without move_to_end, the order stays insertion order
Unmoved(cache, key) == cache

\* cache.move_to_end(key)
move_to_end(cache, key) ==
    Append(DelKey(cache, key), [key |-> key, val |-> Lookup(cache, key)])

\* del stats[key]
DelStat(stats, key) == [k \in DOMAIN stats \ {key} |-> stats[k]]

\* stats[key] = rec
SetStat(stats, key, rec) ==
    [k \in DOMAIN stats \cup {key} |-> IF k = key THEN rec ELSE stats[k]]

\* the document _save_cache writes
_save_cache(ec) ==
    [ exists |-> TRUE,
      cache |-> [k \in ToSet(Keys(ec.cache)) |-> Lookup(ec.cache, k)],
      cache_order |-> Keys(ec.cache),
      stats |-> ec.stats ]

NoCacheFile == [exists |-> FALSE]

\* a document that is not JSON: the prefix a write left behind when it stopped
\* after open(cache_file, "w") had emptied the file
TruncatedCacheFile == [exists |-> TRUE, truncated |-> TRUE]

\* the object _load_cache builds from the document on disk; json.load raising
\* leaves the empty cache (lines 58-61)
_load_cache(doc) ==
    IF ~doc.exists THEN EmptyCache
    ELSE IF "truncated" \in DOMAIN doc THEN EmptyCache
    ELSE LET order == SelectSeq(doc.cache_order, LAMBDA k : k \in DOMAIN doc.cache)
         IN  [ cache |-> [i \in 1..Len(order) |->
                             [key |-> order[i], val |-> doc.cache[order[i]]]],
               stats |-> doc.stats ]

\* fault: the plain mean of the stored and the incoming score
PlainMean(stat, satisfaction_score) ==
    RMul(RAdd(Get(stat, "satisfaction_score", Rat(1, 2)), satisfaction_score),
         Rat(1, 2))

\* the running average of put and update_satisfaction
BlendSatisfaction(stat, satisfaction_score) ==
    LET current_score == Get(stat, "satisfaction_score", Rat(1, 2))
        count == stat.usage_count
    IN  RMul(RAdd(RMul(current_score, Rat(count, 1)), satisfaction_score),
             Rat(1, count + 1))

\* fault: get returns the cached list and leaves order and stats as they were
GetUncounted(ec, destination, preferences, t) ==
    LET key == _generate_key(destination, preferences)
    IN  IF HasKey(ec.cache, key)
        THEN [ec |-> ec, found |-> TRUE, val |-> Lookup(ec.cache, key), saved |-> FALSE]
        ELSE [ec |-> ec, found |-> FALSE, val |-> <<>>, saved |-> FALSE]

\* ExampleCache.get: [ec: the object afterwards, found/val: the value returned
\* (found = FALSE is None), saved: whether _save_cache ran]
cache_get(ec, destination, preferences, t) ==
    LET key == _generate_key(destination, preferences)
    IN  IF HasKey(ec.cache, key)
        THEN LET stat0 == IF key \in DOMAIN ec.stats THEN ec.stats[key]
                          ELSE [usage_count |-> 0, last_used |-> <<>>, created_at |-> t]
                 stat1 == [stat0 EXCEPT !.usage_count = @ + 1, !.last_used = <<t>>]
             IN  [ ec |-> [cache |-> move_to_end(ec.cache, key),
                           stats |-> SetStat(ec.stats, key, stat1)],
                   found |-> TRUE,
                   val |-> Lookup(ec.cache, key),
                   saved |-> TRUE ]
        ELSE [ec |-> ec, found |-> FALSE, val |-> <<>>, saved |-> FALSE]

\* fault: put without the capacity check
NoEvict(ec) == ec

\* fault: the capacity check evicts the last key of the order, not the first
EvictMRU(ec) ==
    IF Len(ec.cache) > max_size
    THEN [ cache |-> SubSeq(ec.cache, 1, Len(ec.cache) - 1),
           stats |-> DelStat(ec.stats, ec.cache[Len(ec.cache)].key) ]
    ELSE ec

\* fault: the capacity check leaves the stats of the evicted key behind
EvictEntryOnly(ec) ==
    IF Len(ec.cache) > max_size
    THEN [cache |-> Tail(ec.cache), stats |-> ec.stats]
    ELSE ec

\* the capacity check at the end of put (lines 165-170)
EvictLRU(ec) ==
    IF Len(ec.cache) > max_size
    THEN [cache |-> Tail(ec.cache), stats |-> DelStat(ec.stats, Head(ec.cache).key)]
    ELSE ec

\* ExampleCache.put: the object afterwards
cache_put(ec, destination, preferences, examples, satisfaction_score, t) ==
    LET key == _generate_key(destination, preferences)
        cache1 == Append(DelKey(ec.cache, key), [key |-> key, val |-> examples])
        stats1 ==
            IF key \notin DOMAIN ec.stats
            THEN SetStat(ec.stats, key,
                         [ usage_count |-> 0,
                           satisfaction_score |-> satisfaction_score,
                           created_at |-> t,
                           last_used |-> <<>> ])
            ELSE SetStat(ec.stats, key,
                         [k \in DOMAIN ec.stats[key] \cup {"satisfaction_score"} |->
                             IF k = "satisfaction_score"
                             THEN BlendSatisfaction(ec.stats[key], satisfaction_score)
                             ELSE ec.stats[key][k]])
    IN  EvictLRU([cache |-> cache1, stats |-> stats1])

\* max([s.get("usage_count", 1) for s in stats.values()] or [1])
MaxUsage(stats) ==
    LET counts == {Get(stats[k], "usage_count", 1) : k \in DOMAIN stats}
    IN  IF counts = {} THEN 1 ELSE CHOOSE m \in counts : \A c \in counts : c <= m

\* the composite score and its breakdown that get_ranked_examples computes
\* from the key's stats (lines 204-234)
Breakdown(stats, key, t) ==
    LET stat == Get(stats, key, <<>>)
        satisfaction == Get(stat, "satisfaction_score", Rat(1, 2))
        popularity == Rat(Get(stat, "usage_count", 0), MaxUsage(stats))
        age_days == t - Get(stat, "created_at", t)
        recency == RMax(Rat(0, 1), RAdd(Rat(1, 1), Rat(-age_days, 30)))
        composite_score == RAdd(RAdd(RMul(Rat(4, 10), satisfaction),
                                     RMul(Rat(3, 10), popularity)),
                                RMul(Rat(3, 10), recency))
    IN  [ score |-> composite_score,
          breakdown |-> [ satisfaction |-> Round3(satisfaction),
                          popularity |-> Round3(popularity),
                          recency |-> Round3(recency),
                          composite |-> Round3(composite_score) ] ]

\* fault: every cached example is returned, top_k is not applied
RankedAll(got, key, top_k, t) ==
    [ ec |-> got.ec,
      examples |-> got.val,
      ranking_info |->
          [ empty |-> FALSE,
            total_examples_evaluated |-> Len(got.val),
            top_examples_selected |-> Len(got.val),
            scores |-> [i \in 1..Len(got.val) |->
                           Breakdown(got.ec.stats, key, t).breakdown] ],
      saved |-> got.saved ]

\* lines 197-250 of get_ranked_examples, given what self.get returned
Ranked(got, key, top_k, t) ==
    LET scoring == Breakdown(got.ec.stats, key, t)
        scored == [i \in 1..Len(got.val) |->
                      [key |-> scoring.score, val |-> got.val[i],
                       breakdown |-> scoring.breakdown]]
    IN  Bind(Prefix(SortDesc(scored), top_k),
             LAMBDA top :
                 [ ec |-> got.ec,
                   examples |-> [i \in 1..Len(top) |-> top[i].val],
                   ranking_info |->
                       [ empty |-> FALSE,
                         total_examples_evaluated |-> Len(got.val),
                         top_examples_selected |->
                             IF top_k < Len(got.val) THEN top_k ELSE Len(got.val),
                         scores |-> [i \in 1..Len(top) |-> top[i].breakdown] ],
                   saved |-> got.saved ])

\* fault: self.cache[key] read in place of self.get(..), the read is not counted
RankedUncounted(ec, destination, preferences, top_k, t) ==
    LET key == _generate_key(destination, preferences)
        got == [ ec |-> ec, found |-> HasKey(ec.cache, key),
                 val |-> IF HasKey(ec.cache, key) THEN Lookup(ec.cache, key) ELSE <<>>,
                 saved |-> FALSE ]
    IN  IF ~got.found \/ got.val = <<>>
        THEN [ ec |-> got.ec, examples |-> <<>>,
               ranking_info |-> [empty |-> TRUE], saved |-> got.saved ]
        ELSE Ranked(got, key, top_k, t)

\* ExampleCache.get_ranked_examples: [ec, examples, ranking_info, saved];
\* ranking_info {} is [empty |-> TRUE]
get_ranked_examples(ec, destination, preferences, top_k, t) ==
    Bind(cache_get(ec, destination, preferences, t),
         LAMBDA got :
             IF ~got.found \/ got.val = <<>>
             THEN [ ec |-> got.ec, examples |-> <<>>,
                    ranking_info |-> [empty |-> TRUE], saved |-> got.saved ]
             ELSE Ranked(got, _generate_key(destination, preferences), top_k, t))

\* fault: update_satisfaction starts stats for a fingerprint that has none
UpdateCreates(ec, destination, preferences, satisfaction_score) ==
    [ ec |-> [ec EXCEPT !.stats =
                 SetStat(ec.stats, _generate_key(destination, preferences),
                         [ usage_count |-> 0,
                           satisfaction_score |-> satisfaction_score ])],
      saved |-> TRUE ]

\* ExampleCache.update_satisfaction: [ec, saved]
update_satisfaction(ec, destination, preferences, satisfaction_score) ==
    LET key == _generate_key(destination, preferences)
    IN  IF key \in DOMAIN ec.stats
        THEN [ ec |-> [ec EXCEPT !.stats =
                   SetStat(ec.stats, key,
                       [k \in DOMAIN ec.stats[key] \cup {"satisfaction_score"} |->
                           IF k = "satisfaction_score"
                           THEN BlendSatisfaction(ec.stats[key], satisfaction_score)
                           ELSE ec.stats[key][k]])],
               saved |-> TRUE ]
        ELSE [ec |-> ec, saved |-> FALSE]

\* ExampleCache.clear: the object afterwards
cache_clear(ec) == EmptyCache

(***************************************************************************)
(* FewShotSelector.select_examples_smart, the part after the cache probe   *)
(* and the two history reads (lines 147-200).                              *)
(***************************************************************************)
\* trip.copy() with trip_with_score["similarity_score"] = score
WithScore(trip, score) ==
    [k \in DOMAIN trip \cup {"similarity_score"} |->
        IF k = "similarity_score" THEN score ELSE trip[k]]

\* scored_trips after scored_trips.sort(key=similarity_score, reverse=True)
ScoredTrips(recent_trips, destination, preferences) ==
    LET scored == [i \in 1..Len(recent_trips) |->
                      [ key |-> calculate_similarity_score(recent_trips[i],
                                                           destination, preferences),
                        val |-> recent_trips[i] ]]
        sorted == SortDesc(scored)
    IN  [i \in 1..Len(sorted) |-> WithScore(sorted[i].val, sorted[i].key)]

\* fault: ">" for ">=" in the threshold tests
Above(best_score, threshold) == RLt(threshold, best_score)

\* best_score >= threshold (lines 165 and 179)
AtLeast(best_score, threshold) == RLe(threshold, best_score)

\* fault: the summary is returned whatever the scores, and written to the cache
SummaryCached(scored_trips, summary, max_examples) ==
    [ value |-> [ strategy |-> "summary",
                  examples |-> summary,
                  estimated_tokens |-> 150,
                  from_cache |-> FALSE,
                  ranking_info |-> <<>> ],
      put |-> TRUE ]

\* fault: "condensed" returns every scored trip, max_examples is not applied
CondensedAll(scored_trips, summary, max_examples) ==
    [ value |-> [ strategy |-> "condensed",
                  examples |-> scored_trips,
                  estimated_tokens |-> Len(scored_trips) * 200,
                  from_cache |-> FALSE,
                  ranking_info |-> <<>> ],
      put |-> TRUE ]

\* lines 161-200, given the sorted scored_trips
Strategy(scored_trips, summary, max_examples) ==
    LET best_score == IF scored_trips # <<>> THEN scored_trips[1].similarity_score
                      ELSE Rat(0, 1)
        top_matches == Prefix(scored_trips, max_examples)
    IN  IF AtLeast(best_score, HIGH_SIMILARITY_THRESHOLD)
        THEN [ value |-> [ strategy |-> "full",
                           examples |-> <<scored_trips[1]>>,
                           estimated_tokens |-> 800,
                           from_cache |-> FALSE,
                           ranking_info |-> <<>> ],
               put |-> TRUE ]
        ELSE IF AtLeast(best_score, MEDIUM_SIMILARITY_THRESHOLD)
        THEN [ value |-> [ strategy |-> "condensed",
                           examples |-> top_matches,
                           estimated_tokens |-> Len(top_matches) * 200,
                           from_cache |-> FALSE,
                           ranking_info |-> <<>> ],
               put |-> TRUE ]
        ELSE [ value |-> [ strategy |-> "summary",
                           examples |-> summary,
                           estimated_tokens |-> 150,
                           from_cache |-> FALSE,
                           ranking_info |-> <<>> ],
               put |-> FALSE ]

\* [value: the dict returned, put: whether cache.put is called with value.examples]
SelectFromHistory(recent_trips, summary, destination, preferences, max_examples) ==
    IF recent_trips = <<>> /\ Get(summary, "totalTrips", 0) = 0
    THEN [ value |-> [strategy |-> "none", examples |-> <<>>, estimated_tokens |-> 0],
           put |-> FALSE ]
    ELSE Bind(ScoredTrips(recent_trips, destination, preferences),
              LAMBDA scored_trips : Strategy(scored_trips, summary, max_examples))

\* fault: the cached examples are not used, every call goes on to the history
ProbeMisses(got, ranked) ==
    [ec |-> got.ec, saved |-> got.saved, hit |-> FALSE, value |-> <<>>]

\* lines 129-141, given what cache.get and get_ranked_examples returned
ProbeResult(got, ranked) ==
    IF got.found /\ got.val # <<>>
    THEN IF ranked.examples # <<>>
         THEN [ ec |-> ranked.ec, saved |-> TRUE, hit |-> TRUE,
                value |-> [ strategy |-> "condensed",
                            examples |-> ranked.examples,
                            estimated_tokens |-> Len(ranked.examples) * 200,
                            from_cache |-> TRUE,
                            ranking_info |-> <<ranked.ranking_info>> ] ]
         ELSE [ec |-> ranked.ec, saved |-> TRUE, hit |-> FALSE, value |-> <<>>]
    ELSE [ec |-> got.ec, saved |-> got.saved, hit |-> FALSE, value |-> <<>>]

\* the cache probe of select_examples_smart (lines 128-141):
\* [ec, saved, hit: whether the call returns from the cache, value]
CacheProbe(ec, destination, preferences, max_examples, t) ==
    Bind(cache_get(ec, destination, preferences, t),
         LAMBDA got :
             Bind(get_ranked_examples(got.ec, destination, preferences,
                                      max_examples, t),
                  LAMBDA ranked : ProbeResult(got, ranked)))

(***************************************************************************)
(* The state.                                                              *)
(***************************************************************************)
VARIABLES
    historyFile,    \* the "users" object of the history document on disk
    historyFault,   \* what is wrong with the history document: "none",
                    \* "bad_json" (no valid JSON) or "unreadable" (it cannot be
                    \* opened or decoded)
    lock,           \* UserHistoryManager._lock: its holder, or "free"
    waiters,        \* the coroutines queued on _lock, first come first
    pc,             \* where each coroutine is suspended
    frame,          \* the locals of each coroutine's call in progress
    ret,            \* what each coroutine's last call returned
    exampleCache,   \* the ExampleCache object [cache, stats]
    cacheFile,      \* the cache document on disk
    now,            \* datetime.now(), in days
    nops,           \* calls made so far
    addedLog,       \* per user, the arguments of the add_trip calls that returned
    clock,          \* number of cache accesses so far
    touched,        \* per fingerprint, the clock of its last get hit or put
    inserted        \* per fingerprint, the clock of the put that last inserted it

vars == << historyFile, historyFault, lock, waiters, pc, frame, ret, exampleCache, cacheFile,
           now, nops, addedLog, clock, touched, inserted >>

historyVars == << historyFile, historyFault, lock, waiters, addedLog >>
cacheVars == << exampleCache, cacheFile, clock, touched, inserted >>

Procs == {"p1", "p2", "p3"}
Users == {"default_user", "u1", "u2"}

IdleFrame == [op |-> "idle"]
NoRet == [op |-> "none"]

Init ==
    /\ historyFile = DefaultHistory
    /\ historyFault = "none"
    /\ lock = "free"
    /\ waiters = <<>>
    /\ pc = [p \in Procs |-> "idle"]
    /\ frame = [p \in Procs |-> IdleFrame]
    /\ ret = [p \in Procs |-> NoRet]
    /\ exampleCache = EmptyCache
    /\ cacheFile = NoCacheFile
    /\ now = 0
    /\ nops = 0
    /\ addedLog = [u \in Users |-> <<>>]
    /\ clock = 0
    /\ touched = <<>>
    /\ inserted = <<>>

(***************************************************************************)
(* asyncio.Lock, as used by load_history and save_history                  *)
(* ("async with self._lock: await asyncio.to_thread(...)").                *)
(***************************************************************************)
LockState == [lock |-> lock, waiters |-> waiters, pc |-> pc]

\* the state a queued coroutine resumes in once it is handed the lock
IoState(w) ==
    CASE w = "add_load_wait" -> "add_load"
      [] w = "add_save_wait" -> "add_save"
      [] w = "sel_recent_wait" -> "sel_recent"
      [] w = "sel_summary_wait" -> "sel_summary"
      [] w = "read_load_wait" -> "read_load"
      [] w = "proc_load_wait" -> "proc_load"

\* fault: release() wakes nobody, the queued coroutines stay queued
ReleasedUnwoken(ls) == [ls EXCEPT !.lock = "free"]

\* Lock.release(): the first waiter, if any, is woken and owns the lock next
Released(ls) ==
    IF ls.waiters = <<>>
    THEN [ls EXCEPT !.lock = "free"]
    ELSE [ lock |-> Head(ls.waiters),
           waiters |-> Tail(ls.waiters),
           pc |-> [ls.pc EXCEPT ![Head(ls.waiters)] = IoState(@)] ]

\* fault: no lock, p goes on at once
AcquiredAtOnce(ls, p, io, wait) == [ls EXCEPT !.pc[p] = io]

\* Lock.acquire() by p: at once when unlocked with nobody queued, else p queues
Acquired(ls, p, io, wait) ==
    IF ls.lock = "free" /\ ls.waiters = <<>>
    THEN [ls EXCEPT !.lock = p, !.pc[p] = io]
    ELSE [ls EXCEPT !.waiters = Append(@, p), !.pc[p] = wait]

Returned(ls, p) == [ls EXCEPT !.pc[p] = "idle"]

SetLock(ls) ==
    /\ lock' = ls.lock
    /\ waiters' = ls.waiters
    /\ pc' = ls.pc

\* _load_history_sync: [raised: an exception leaves it, users: the "users"
\* object of the dict returned].  FileNotFoundError and JSONDecodeError give
\* {"users": {}}; any other error of open() or of the decoding is not caught.
_load_history_sync(doc, fault) ==
    CASE fault = "none" -> [raised |-> FALSE, users |-> doc]
      [] fault = "bad_json" -> [raised |-> FALSE, users |-> <<>>]
      [] fault = "unreadable" -> [raised |-> TRUE, users |-> <<>>]

\* an exception leaves p's call; "async with" releases the lock on the way out
Raises(p, op) ==
    /\ ret' = [ret EXCEPT ![p] = [op |-> "raised", call |-> op]]
    /\ frame' = [frame EXCEPT ![p] = IdleFrame]
    /\ SetLock(Returned(Released(LockState), p))

(***************************************************************************)
(* UserHistoryManager.add_trip, one action per stretch between awaits.     *)
(***************************************************************************)
\* add_trip is called: it runs up to the to_thread of load_history
AddTripCall(p, user_id, args) ==
    /\ pc[p] = "idle"
    /\ frame' = [frame EXCEPT ![p] =
                    [op |-> "add_trip", user_id |-> user_id, args |-> args]]
    /\ SetLock(Acquired(LockState, p, "add_load", "add_load_wait"))
    /\ nops' = nops + 1
    /\ UNCHANGED << historyFile, historyFault, ret, now, addedLog >>
    /\ UNCHANGED cacheVars

\* load_history returns: lines 208-258 up to the to_thread of save_history
AddTripLoaded(p) ==
    /\ pc[p] = "add_load"
    /\ \E loaded \in {_load_history_sync(historyFile, historyFault)} :
           IF loaded.raised
           THEN Raises(p, "add_trip")
           ELSE /\ frame' = [frame EXCEPT ![p] =
                       [ op |-> "add_trip", user_id |-> frame[p].user_id,
                         args |-> frame[p].args,
                         history |-> AddTripToHistory(loaded.users, frame[p].user_id,
                                                      frame[p].args) ]]
                /\ SetLock(Acquired(Released(LockState), p, "add_save",
                                    "add_save_wait"))
                /\ ret' = ret
    /\ UNCHANGED << historyFile, historyFault, now, nops, addedLog >>
    /\ UNCHANGED cacheVars

\* save_history returns, and add_trip with it
AddTripSaved(p) ==
    /\ pc[p] = "add_save"
    /\ historyFile' = frame[p].history
    /\ historyFault' = "none"
    /\ SetLock(Returned(Released(LockState), p))
    /\ ret' = [ret EXCEPT ![p] =
                  [op |-> "add_trip", user_id |-> frame[p].user_id,
                   args |-> frame[p].args]]
    /\ addedLog' = [addedLog EXCEPT ![frame[p].user_id] = Append(@, frame[p].args)]
    /\ frame' = [frame EXCEPT ![p] = IdleFrame]
    /\ UNCHANGED << now, nops >>
    /\ UNCHANGED cacheVars

\* where a write of a document stops: in open(), before the file is emptied,
\* or in json.dump, after open(.., "w") emptied it
FailPoints == {"open", "dump"}

\* the state of the history document after _save_history_sync failed
_save_history_fails(fault, at) == IF at = "open" THEN fault ELSE "bad_json"

\* _save_history_sync fails and swallows the exception (lines 101-102):
\* save_history returns, and add_trip with it
AddTripSaveFails(p, at) ==
    /\ pc[p] = "add_save"
    /\ historyFile' = historyFile
    /\ historyFault' = _save_history_fails(historyFault, at)
    /\ SetLock(Returned(Released(LockState), p))
    /\ ret' = [ret EXCEPT ![p] =
                  [op |-> "add_trip", user_id |-> frame[p].user_id,
                   args |-> frame[p].args]]
    /\ addedLog' = [addedLog EXCEPT ![frame[p].user_id] = Append(@, frame[p].args)]
    /\ frame' = [frame EXCEPT ![p] = IdleFrame]
    /\ UNCHANGED << now, nops >>
    /\ UNCHANGED cacheVars

\* the environment damages the history document: "bad_json" is text json.load
\* rejects, "unreadable" bytes that are not UTF-8 or a file open() refuses
CorruptHistory(kind) ==
    /\ \A p \in Procs : pc[p] = "idle"
    /\ historyFault' = kind
    /\ nops' = nops + 1
    /\ UNCHANGED << historyFile, lock, waiters, pc, frame, ret, now, addedLog >>
    /\ UNCHANGED cacheVars

(***************************************************************************)
(* The reads get_user_data, get_recent_trips and get_summary.  limit=None  *)
(* is <<>> and limit=k is <<k>>.                                           *)
(***************************************************************************)
\* the read is called: it runs up to the to_thread of load_history
ReadCall(p, op, user_id, limit) ==
    /\ pc[p] = "idle"
    /\ frame' = [frame EXCEPT ![p] =
                    [op |-> op, user_id |-> user_id, limit |-> limit]]
    /\ SetLock(Acquired(LockState, p, "read_load", "read_load_wait"))
    /\ nops' = nops + 1
    /\ UNCHANGED << historyFile, historyFault, ret, now, addedLog >>
    /\ UNCHANGED cacheVars

\* what the read returns from the loaded users (lines 123-174)
ReadValue(op, users, user_id, limit) ==
    LET user_data == UserData(users, user_id)
        trips == Get(user_data, "recentTrips", <<>>)
    IN  CASE op = "get_user_data" -> user_data
          [] op = "get_recent_trips" ->
                 IF limit # <<>> THEN Prefix(trips, limit[1]) ELSE trips
          [] op = "get_summary" -> Get(user_data, "historySummary", <<>>)

\* load_history returns, and the read with it; or load_history raises
ReadLoaded(p) ==
    /\ pc[p] = "read_load"
    /\ \E loaded \in {_load_history_sync(historyFile, historyFault)} :
           IF loaded.raised
           THEN Raises(p, frame[p].op)
           ELSE /\ ret' = [ret EXCEPT ![p] =
                       [ op |-> frame[p].op, user_id |-> frame[p].user_id,
                         limit |-> frame[p].limit,
                         value |-> ReadValue(frame[p].op, loaded.users,
                                             frame[p].user_id, frame[p].limit) ]]
                /\ frame' = [frame EXCEPT ![p] = IdleFrame]
                /\ SetLock(Returned(Released(LockState), p))
    /\ UNCHANGED << historyFile, historyFault, now, nops, addedLog >>
    /\ UNCHANGED cacheVars

(***************************************************************************)
(* POST /travel-assistant up to the point where process_travel_request_new *)
(* has the request it works on.  A body is the JSON object sent: a field   *)
(* is <<>> when the body has no such key (or null) and <<v>> when present. *)
(***************************************************************************)
\* bool(f) of an Optional[str]: None and "" are false
Truthy(f) == f # <<>> /\ f[1] # <<>>

\* TravelRequest.check_at_least_one_field: TRUE when the model validates
check_at_least_one_field(body) ==
    \/ Truthy(body.destination)
    \/ Truthy(body.travel_dates)
    \/ Truthy(body.preferences)

\* the defaults written in process_travel_request_new; "P, F" stands for
\* "Paris, France", "N" for "Next month", "c s" for "comfortable travel and
\* sightseeing"
ParisFrance == <<"P", ",", " ", "F">>
NextMonth == <<"N">>
ComfortableTravelAndSightseeing == <<"c", " ", "s">>

\* request.user_id: the field default when the body has none
UserIdOf(body) == IF body.user_id = <<>> THEN "default_user" ELSE body.user_id[1]

\* the request after "fill missing fields from user history" (lines 542-557);
\* a stored trip has the key "travel_dates", so last_trip.get("travelDates",
\* "Next month") is always the default
FillMissingFields(body, recent_trips) ==
    LET Fill(f, v) == IF f = <<>> THEN v ELSE f[1]
    IN  IF recent_trips # <<>>
        THEN LET last_trip == recent_trips[1]
             IN  [ destination |-> Fill(body.destination, last_trip.destination),
                   travel_dates |-> Fill(body.travel_dates, NextMonth),
                   preferences |-> Fill(body.preferences, last_trip.preferences),
                   user_id |-> UserIdOf(body) ]
        ELSE [ destination |-> Fill(body.destination, ParisFrance),
               travel_dates |-> Fill(body.travel_dates, NextMonth),
               preferences |-> Fill(body.preferences, ComfortableTravelAndSightseeing),
               user_id |-> UserIdOf(body) ]

\* the request arrives: a body the model rejects is answered 422 before the
\* endpoint function runs; otherwise travel_assistant calls
\* process_travel_request_new, which runs up to the load_history of
\* get_recent_trips(request.user_id, limit=1)
TravelAssistantCall(p, body) ==
    /\ pc[p] = "idle"
    /\ IF check_at_least_one_field(body)
       THEN /\ frame' = [frame EXCEPT ![p] = [op |-> "travel_assistant", body |-> body]]
            /\ SetLock(Acquired(LockState, p, "proc_load", "proc_load_wait"))
            /\ ret' = ret
       ELSE /\ ret' = [ret EXCEPT ![p] =
                       [op |-> "travel_assistant", status_code |-> 422, body |-> body]]
            /\ UNCHANGED << frame, lock, waiters, pc >>
    /\ nops' = nops + 1
    /\ UNCHANGED << historyFile, historyFault, now, addedLog >>
    /\ UNCHANGED cacheVars

\* load_history returns: the missing fields are filled and processing goes on
\* with the filled request; an exception becomes the 500 of the endpoint
ProcessLoaded(p) ==
    /\ pc[p] = "proc_load"
    /\ \E loaded \in {_load_history_sync(historyFile, historyFault)} :
           ret' = [ret EXCEPT ![p] =
                      IF loaded.raised
                      THEN [ op |-> "travel_assistant", status_code |-> 500,
                             body |-> frame[p].body ]
                      ELSE [ op |-> "process_travel_request_new",
                             body |-> frame[p].body,
                             request |-> FillMissingFields(frame[p].body,
                                 ReadValue("get_recent_trips", loaded.users,
                                           UserIdOf(frame[p].body), <<1>>)) ]]
    /\ frame' = [frame EXCEPT ![p] = IdleFrame]
    /\ SetLock(Returned(Released(LockState), p))
    /\ UNCHANGED << historyFile, historyFault, now, nops, addedLog >>
    /\ UNCHANGED cacheVars

(***************************************************************************)
(* FewShotSelector.select_examples_smart, one action per stretch between   *)
(* awaits.                                                                 *)
(***************************************************************************)
\* the bookkeeping of one cache access: key touched, and inserted when new
Touch(key, isInsert) ==
    /\ clock' = clock + 1
    /\ touched' = SetStat(touched, key, clock + 1)
    /\ inserted' = IF isInsert THEN SetStat(inserted, key, clock + 1) ELSE inserted

\* fault: the operation returns without calling _save_cache
PersistNothing(res) ==
    /\ exampleCache' = res.ec
    /\ cacheFile' = cacheFile

Persist(res) ==
    /\ exampleCache' = res.ec
    /\ cacheFile' = IF res.saved THEN _save_cache(res.ec) ELSE cacheFile

\* the call: the cache probe; on a hit it returns, on a miss it runs up to the
\* to_thread of the load_history of get_recent_trips
SelectCall(p, user_id, destination, preferences, max_examples) ==
    LET probe == CacheProbe(exampleCache, destination, preferences, max_examples, now)
        key == _generate_key(destination, preferences)
        call == [ op |-> "select", user_id |-> user_id, destination |-> destination,
                  preferences |-> preferences, max_examples |-> max_examples ]
    IN  /\ pc[p] = "idle"
        /\ Persist(probe)
        /\ IF HasKey(exampleCache.cache, key)
           THEN Touch(key, FALSE)
           ELSE UNCHANGED << clock, touched, inserted >>
        /\ nops' = nops + 1
        /\ IF probe.hit
           THEN /\ ret' = [ret EXCEPT ![p] =
                             [ call |-> call, value |-> probe.value,
                               op |-> "select", recent_trips |-> <<>> ]]
                /\ UNCHANGED << frame, lock, waiters, pc >>
           ELSE /\ frame' = [frame EXCEPT ![p] = call]
                /\ SetLock(Acquired(LockState, p, "sel_recent", "sel_recent_wait"))
                /\ ret' = ret
        /\ UNCHANGED << historyFile, historyFault, now, addedLog >>

\* get_recent_trips returns (line 144); on to the load_history of get_summary
SelectRecentLoaded(p) ==
    /\ pc[p] = "sel_recent"
    /\ \E loaded \in {_load_history_sync(historyFile, historyFault)} :
           IF loaded.raised
           THEN Raises(p, "select")
           ELSE /\ frame' = [frame EXCEPT ![p] =
                       [ op |-> "select_summary",
                         call |-> frame[p],
                         recent_trips |->
                             Get(UserData(loaded.users, frame[p].user_id),
                                 "recentTrips", <<>>) ]]
                /\ SetLock(Acquired(Released(LockState), p, "sel_summary",
                                    "sel_summary_wait"))
                /\ ret' = ret
    /\ UNCHANGED << historyFile, historyFault, now, nops, addedLog >>
    /\ UNCHANGED cacheVars

\* lines 147-200 once get_summary has returned: the call returns
SelectReturns(p, summary) ==
    LET call == frame[p].call
        sel == SelectFromHistory(frame[p].recent_trips, summary, call.destination,
                                 call.preferences, call.max_examples)
        key == _generate_key(call.destination, call.preferences)
    IN  /\ IF sel.put
           THEN /\ Persist([ ec |-> cache_put(exampleCache, call.destination,
                                              call.preferences, sel.value.examples,
                                              Rat(1, 2), now),
                             saved |-> TRUE ])
                /\ Touch(key, ~HasKey(exampleCache.cache, key))
           ELSE UNCHANGED cacheVars
        /\ ret' = [ret EXCEPT ![p] =
                      [ op |-> "select", call |-> call, value |-> sel.value,
                        recent_trips |-> frame[p].recent_trips ]]
        /\ frame' = [frame EXCEPT ![p] = IdleFrame]
        /\ SetLock(Returned(Released(LockState), p))

\* get_summary returns (line 145), or its load_history raises
SelectSummaryLoaded(p) ==
    /\ pc[p] = "sel_summary"
    /\ \E loaded \in {_load_history_sync(historyFile, historyFault)} :
           IF loaded.raised
           THEN Raises(p, "select") /\ UNCHANGED cacheVars
           ELSE SelectReturns(p, Get(UserData(loaded.users, frame[p].call.user_id),
                                     "historySummary", <<>>))
    /\ UNCHANGED << historyFile, historyFault, now, nops, addedLog >>

(***************************************************************************)
(* The public operations of ExampleCache called directly.  None of them    *)
(* awaits: each call is one step.                                          *)
(***************************************************************************)
CacheGet(p, destination, preferences) ==
    LET res == cache_get(exampleCache, destination, preferences, now)
        key == _generate_key(destination, preferences)
    IN  /\ pc[p] = "idle"
        /\ Persist(res)
        /\ IF res.found THEN Touch(key, FALSE)
                        ELSE UNCHANGED << clock, touched, inserted >>
        /\ ret' = [ret EXCEPT ![p] =
                      [ op |-> "get", destination |-> destination,
                        preferences |-> preferences,
                        found |-> res.found, val |-> res.val ]]
        /\ nops' = nops + 1
        /\ UNCHANGED << historyFile, historyFault, lock, waiters, pc, frame, now, addedLog >>

CachePut(p, destination, preferences, examples, satisfaction_score) ==
    LET key == _generate_key(destination, preferences)
    IN  /\ pc[p] = "idle"
        /\ Persist([ ec |-> cache_put(exampleCache, destination, preferences,
                                      examples, satisfaction_score, now),
                     saved |-> TRUE ])
        /\ Touch(key, ~HasKey(exampleCache.cache, key))
        /\ ret' = [ret EXCEPT ![p] =
                      [ op |-> "put", destination |-> destination,
                        preferences |-> preferences, examples |-> examples,
                        satisfaction_score |-> satisfaction_score ]]
        /\ nops' = nops + 1
        /\ UNCHANGED << historyFile, historyFault, lock, waiters, pc, frame, now, addedLog >>

CacheGetRanked(p, destination, preferences, top_k) ==
    LET res == get_ranked_examples(exampleCache, destination, preferences, top_k, now)
        key == _generate_key(destination, preferences)
    IN  /\ pc[p] = "idle"
        /\ Persist(res)
        /\ IF HasKey(exampleCache.cache, key)
           THEN Touch(key, FALSE)
           ELSE UNCHANGED << clock, touched, inserted >>
        /\ ret' = [ret EXCEPT ![p] =
                      [ op |-> "get_ranked_examples", destination |-> destination,
                        preferences |-> preferences, top_k |-> top_k,
                        examples |-> res.examples,
                        ranking_info |-> res.ranking_info ]]
        /\ nops' = nops + 1
        /\ UNCHANGED << historyFile, historyFault, lock, waiters, pc, frame, now, addedLog >>

CacheUpdateSatisfaction(p, destination, preferences, satisfaction_score) ==
    /\ pc[p] = "idle"
    /\ Persist(update_satisfaction(exampleCache, destination, preferences,
                                   satisfaction_score))
    /\ ret' = [ret EXCEPT ![p] =
                  [ op |-> "update_satisfaction", destination |-> destination,
                    preferences |-> preferences,
                    satisfaction_score |-> satisfaction_score ]]
    /\ nops' = nops + 1
    /\ UNCHANGED << historyFile, historyFault, lock, waiters, pc, frame, now, addedLog,
                    clock, touched, inserted >>

CacheClear(p) ==
    /\ pc[p] = "idle"
    /\ Persist([ec |-> cache_clear(exampleCache), saved |-> TRUE])
    /\ ret' = [ret EXCEPT ![p] = [op |-> "clear"]]
    /\ nops' = nops + 1
    /\ UNCHANGED << historyFile, historyFault, lock, waiters, pc, frame, now, addedLog,
                    clock, touched, inserted >>

\* the state of the cache document after _save_cache failed
_save_cache_fails(doc, at) == IF at = "open" THEN doc ELSE TruncatedCacheFile

\* put whose _save_cache fails and swallows the exception (lines 75-76)
CachePutSaveFails(p, destination, preferences, examples, satisfaction_score, at) ==
    LET key == _generate_key(destination, preferences)
    IN  /\ pc[p] = "idle"
        /\ exampleCache' = cache_put(exampleCache, destination, preferences,
                                     examples, satisfaction_score, now)
        /\ cacheFile' = _save_cache_fails(cacheFile, at)
        /\ Touch(key, ~HasKey(exampleCache.cache, key))
        /\ ret' = [ret EXCEPT ![p] =
                      [ op |-> "put", destination |-> destination,
                        preferences |-> preferences, examples |-> examples,
                        satisfaction_score |-> satisfaction_score ]]
        /\ nops' = nops + 1
        /\ UNCHANGED << historyFile, historyFault, lock, waiters, pc, frame, now, addedLog >>

\* the environment damages the cache document
CorruptCache ==
    /\ \A p \in Procs : pc[p] = "idle"
    /\ cacheFile.exists
    /\ cacheFile' = TruncatedCacheFile
    /\ nops' = nops + 1
    /\ UNCHANGED << historyFile, historyFault, lock, waiters, pc, frame, ret, now, addedLog,
                    exampleCache, clock, touched, inserted >>

\* the process starts again: ExampleCache.__init__ loads the document (line 45)
Restart ==
    /\ \A p \in Procs : pc[p] = "idle"
    /\ exampleCache' = _load_cache(cacheFile)
    /\ ret' = [p \in Procs |-> [op |-> "restart"]]
    /\ nops' = nops + 1
    /\ UNCHANGED << historyFile, historyFault, lock, waiters, pc, frame, cacheFile, now, addedLog,
                    clock, touched, inserted >>

\* calculate_similarity_score called on its own
ScoreCall(p, trip, destination, preferences) ==
    /\ pc[p] = "idle"
    /\ ret' = [ret EXCEPT ![p] =
                  [ op |-> "score", trip |-> trip, destination |-> destination,
                    preferences |-> preferences,
                    score |-> calculate_similarity_score(trip, destination,
                                                         preferences) ]]
    /\ UNCHANGED << historyFile, historyFault, lock, waiters, pc, frame, now, nops, addedLog >>
    /\ UNCHANGED cacheVars

(***************************************************************************)
(* The inputs.  "T, J" stands for "Tokyo, Japan", "s, m" for "sushi,       *)
(* museums": one letter a word.                                            *)
(***************************************************************************)
TokyoJapan == <<"T", ",", " ", "J">>
tokyo == <<"t">>
Paris == <<"P">>
SushiMuseums == <<"s", ",", " ", "m">>
SushiWineExtra == <<"S", " ", "w", " ", "x">>
MuseumsSushi == <<"m", " ", "s">>
AndThe == <<"a", "n", "d", " ", "t", "h", "e">>
Empty == <<>>

Destinations == {TokyoJapan, tokyo, Paris, Empty}
Preferences == {SushiMuseums, SushiWineExtra, AndThe, Empty}

\* the trip records calculate_similarity_score is applied to: every subset of
\* the three fields it reads, ratings in and out of 0..5
ScoreTrips ==
    LET full == [ destination : Destinations, preferences : Preferences,
                  satisfaction_rating : {-1, 0, 3, 5, 6} ]
    IN  UNION { {[k \in fields |-> t[k]] : t \in full} :
                fields \in SUBSET {"destination", "preferences", "satisfaction_rating"} }

\* one call of calculate_similarity_score on any of the inputs
NextScore ==
    \E trip \in ScoreTrips, d \in Destinations, pr \in Preferences :
        /\ ret["p1"].op = "none"
        /\ ScoreCall("p1", trip, d, pr)

SpecScore == Init /\ [][NextScore]_vars

TripArgs(d, pr, rating, tokens, latency) ==
    [ destination |-> d, preferences |-> pr, satisfaction_rating |-> rating,
      token_usage |-> tokens, latency_ms |-> latency ]

(***************************************************************************)
(* SpecHistory: one caller makes add_trip calls for one user, one after    *)
(* the other.                                                              *)
(***************************************************************************)
HistoryTripArgs ==
    { TripArgs(TokyoJapan, SushiMuseums, 5, 900, 40),
      TripArgs(Paris, SushiWineExtra, 0, 0, 0) }

NextHistory ==
    \/ \E args \in HistoryTripArgs :
           /\ nops < MaxAdds
           /\ AddTripCall("p1", "u1", args)
    \/ AddTripLoaded("p1")
    \/ AddTripSaved("p1")

SpecHistory == Init /\ [][NextHistory]_vars

(***************************************************************************)
(* SpecSummary: one caller makes add_trip calls for one user, one after    *)
(* the other; the n-th call adds either a trip with two preference words   *)
(* of its own and positive measurements, or a trip that measures nothing.  *)
(***************************************************************************)
Marks == <<"1", "2", "3", "4", "5", "6", "7", "8", "9", "a", "b", "c", "d", "e">>

\* "S, m<n> w<n>"
MarkedPreferences(n) == <<"S", ",", " ", "m", Marks[n], " ", "w", Marks[n]>>

SummaryTripArgs(n) ==
    { TripArgs(IF n % 2 = 1 THEN TokyoJapan ELSE tokyo, MarkedPreferences(n),
               4 + (n % 2), 900 + (n % 3), 40 + (n % 3)),
      TripArgs(Paris, SushiWineExtra, 0, 0, 0) }

NextSummary ==
    \/ \E args \in SummaryTripArgs(nops + 1) :
           /\ nops < MaxAdds
           /\ AddTripCall("p1", "u1", args)
    \/ AddTripLoaded("p1")
    \/ AddTripSaved("p1")

SpecSummary == Init /\ [][NextSummary]_vars

(***************************************************************************)
(* SpecConc: two coroutines call add_trip, interleaved at their awaits.    *)
(***************************************************************************)
NextConc ==
    \E p \in Procs :
        \/ \E u \in {"u1", "u2"}, args \in HistoryTripArgs :
               /\ nops < MaxCalls
               /\ AddTripCall(p, u, args)
        \/ AddTripLoaded(p)
        \/ AddTripSaved(p)

SpecConc == Init /\ [][NextConc]_vars

(***************************************************************************)
(* SpecCache: one caller uses the public operations of ExampleCache in any *)
(* order, and the process may restart between calls.                       *)
(***************************************************************************)
Example1 == WithScore([ id |-> <<"trip", "u1", 1>>, destination |-> TokyoJapan,
                        preferences |-> SushiMuseums, satisfaction_rating |-> 5,
                        token_usage |-> 900, latency_ms |-> 40 ], Rat(1, 1))
Example2 == WithScore([ id |-> <<"trip", "u1", 1>>, destination |-> Paris,
                        preferences |-> SushiWineExtra, satisfaction_rating |-> 0,
                        token_usage |-> 0, latency_ms |-> 0 ], Rat(1, 2))

ExampleLists == { <<Example1>>, <<Example2, Example1>> }

CacheRequests ==
    { <<TokyoJapan, SushiMuseums>>, <<tokyo, SushiMuseums>>,
      <<Paris, SushiMuseums>>, <<Paris, Empty>> }

NextCache ==
    \/ \E r \in CacheRequests :
           nops < MaxCacheOps /\ CacheGet("p1", r[1], r[2])
    \/ \E r \in CacheRequests, e \in ExampleLists :
           nops < MaxCacheOps /\ CachePut("p1", r[1], r[2], e, Rat(1, 2))
    \/ \E r \in CacheRequests, k \in {0, 1, 2} :
           nops < MaxCacheOps /\ CacheGetRanked("p1", r[1], r[2], k)
    \/ \E r \in CacheRequests :
           nops < MaxCacheOps /\ CacheUpdateSatisfaction("p1", r[1], r[2], Rat(1, 1))
    \/ nops < MaxCacheOps /\ CacheClear("p1")
    \/ nops < MaxCacheOps /\ Restart

SpecCache == Init /\ [][NextCache]_vars

(***************************************************************************)
(* SpecSel: one caller makes add_trip and select_examples_smart calls, one *)
(* after the other, for several users.                                     *)
(***************************************************************************)
SelTripArgs ==
    { TripArgs(TokyoJapan, SushiMuseums, 5, 900, 40),
      TripArgs(TokyoJapan, MuseumsSushi, 5, 900, 40),
      TripArgs(TokyoJapan, SushiWineExtra, 5, 900, 40),
      TripArgs(TokyoJapan, Empty, 5, 900, 40),
      TripArgs(TokyoJapan, Empty, 0, 0, 0),
      TripArgs(tokyo, SushiWineExtra, 0, 0, 0) }

SelRequests == { <<TokyoJapan, SushiMuseums>>, <<TokyoJapan, Empty>> }

\* "u2" never calls add_trip: the store has no record of it
NextSel ==
    \/ \E u \in {"default_user", "u1"}, args \in SelTripArgs :
           /\ nops < MaxSelOps
           /\ AddTripCall("p1", u, args)
    \/ \E u \in {"u1", "u2"}, r \in SelRequests, k \in {1, 3} :
           /\ nops < MaxSelOps
           /\ SelectCall("p1", u, r[1], r[2], k)
    \/ AddTripLoaded("p1")
    \/ AddTripSaved("p1")
    \/ SelectRecentLoaded("p1")
    \/ SelectSummaryLoaded("p1")

SpecSel == Init /\ [][NextSel]_vars


(***************************************************************************)
(* SpecRead: one caller makes add_trip calls and reads, one after the      *)
(* other.  "u2" never calls add_trip: the store has no record of it.       *)
(***************************************************************************)
Limits == {<<>>, <<1>>, <<2>>}

NextRead ==
    \/ \E u \in {"default_user", "u1"}, args \in HistoryTripArgs :
           /\ nops < MaxReadOps
           /\ AddTripCall("p1", u, args)
    \/ \E u \in {"u1", "u2"}, op \in {"get_user_data", "get_summary"} :
           /\ nops < MaxReadOps
           /\ ReadCall("p1", op, u, <<>>)
    \/ \E u \in {"u1", "u2"}, limit \in Limits :
           /\ nops < MaxReadOps
           /\ ReadCall("p1", "get_recent_trips", u, limit)
    \/ AddTripLoaded("p1")
    \/ AddTripSaved("p1")
    \/ ReadLoaded("p1")

SpecRead == Init /\ [][NextRead]_vars

(***************************************************************************)
(* SpecLock: three coroutines call add_trip and the reads, interleaved at  *)
(* their awaits.  _save_history_sync runs in a worker thread, so the event *)
(* loop runs between its open(.., "w"), which empties the file, and the    *)
(* end of its json.dump.                                                   *)
(***************************************************************************)
\* open(self.history_file, "w") of _save_history_sync: the file is empty
AddTripSaveOpened(p) ==
    /\ pc[p] = "add_save"
    /\ pc' = [pc EXCEPT ![p] = "add_dump"]
    /\ historyFault' = "bad_json"
    /\ UNCHANGED << historyFile, lock, waiters, frame, ret, now, nops, addedLog >>
    /\ UNCHANGED cacheVars

\* json.dump and the "with" of _save_history_sync end: save_history returns,
\* and add_trip with it
AddTripDumped(p) ==
    /\ pc[p] = "add_dump"
    /\ historyFile' = frame[p].history
    /\ historyFault' = "none"
    /\ SetLock(Returned(Released(LockState), p))
    /\ ret' = [ret EXCEPT ![p] =
                  [op |-> "add_trip", user_id |-> frame[p].user_id,
                   args |-> frame[p].args]]
    /\ addedLog' = [addedLog EXCEPT ![frame[p].user_id] = Append(@, frame[p].args)]
    /\ frame' = [frame EXCEPT ![p] = IdleFrame]
    /\ UNCHANGED << now, nops >>
    /\ UNCHANGED cacheVars

LockTripArgs == { TripArgs(Paris, SushiWineExtra, 0, 0, 0) }

NextLock ==
    \E p \in Procs :
        \/ \E args \in LockTripArgs :
               /\ nops < MaxLockCalls
               /\ AddTripCall(p, "u1", args)
        \/ \E op \in {"get_user_data", "get_recent_trips", "get_summary"} :
               /\ nops < MaxLockCalls
               /\ ReadCall(p, op, "u1", <<>>)
        \/ AddTripLoaded(p)
        \/ AddTripSaveOpened(p)
        \/ AddTripDumped(p)
        \/ ReadLoaded(p)

SpecLock == Init /\ [][NextLock]_vars

\* where a coroutine of SpecLock can be suspended
LockPcs ==
    { "idle", "add_load", "add_load_wait", "add_save", "add_save_wait", "add_dump",
      "read_load", "read_load_wait" }

\* the load or the save that a coroutine awaits in asyncio.to_thread goes on:
\* the worker thread gets from its open to its dump, or it ends and the
\* coroutine is resumed
FileOperationGoesOn ==
    \E p \in Procs :
        /\ pc[p] \in {"add_load", "add_save", "add_dump", "read_load"}
        /\ pc' \in [Procs -> LockPcs]
        /\ pc'[p] # pc[p]

\* SpecLock with terminating file I/O under a fair event loop: no coroutine
\* stays in a file operation for ever
SpecLockFair == SpecLock /\ WF_pc(FileOperationGoesOn)

(***************************************************************************)
(* SpecFault: one caller uses the history store and the cache while the    *)
(* documents get damaged and writes fail.                                  *)
(***************************************************************************)
NextFault ==
    \/ \E args \in HistoryTripArgs :
           nops < MaxFaultOps /\ AddTripCall("p1", "u1", args)
    \/ \E op \in {"get_user_data", "get_recent_trips", "get_summary"} :
           nops < MaxFaultOps /\ ReadCall("p1", op, "u1", <<>>)
    \/ \E kind \in {"bad_json", "unreadable"} :
           nops < MaxFaultOps /\ CorruptHistory(kind)
    \/ AddTripLoaded("p1")
    \/ AddTripSaved("p1")
    \/ \E at \in FailPoints : AddTripSaveFails("p1", at)
    \/ ReadLoaded("p1")
    \/ nops < MaxFaultOps /\ CachePut("p1", Paris, Empty, Example1, Rat(1, 2))
    \/ \E at \in FailPoints :
           nops < MaxFaultOps
           /\ CachePutSaveFails("p1", TokyoJapan, SushiMuseums, Example2, Rat(1, 2), at)
    \/ nops < MaxFaultOps /\ CorruptCache
    \/ nops < MaxFaultOps /\ Restart

SpecFault == Init /\ [][NextFault]_vars

(***************************************************************************)
(* SpecRequest: one client posts travel requests; add_trip calls by the    *)
(* same user lie between them.  "L, U" stands for "London, UK", "A" for    *)
(* the dates "Aug 1 - Aug 5, 2025".                                        *)
(***************************************************************************)
LondonUK == <<"L", ",", " ", "U">>
Aug1To5 == <<"A">>

Bodies ==
    [ destination : {<<>>, <<Empty>>, <<LondonUK>>},
      travel_dates : {<<>>, <<Aug1To5>>},
      preferences : {<<>>, <<SushiMuseums>>},
      user_id : {<<>>, <<"u1">>} ]

NextRequest ==
    \/ \E body \in Bodies :
           nops < MaxRequests /\ TravelAssistantCall("p1", body)
    \/ \E args \in HistoryTripArgs :
           nops < MaxRequests /\ AddTripCall("p1", "u1", args)
    \/ ProcessLoaded("p1")
    \/ AddTripLoaded("p1")
    \/ AddTripSaved("p1")

SpecRequest == Init /\ [][NextRequest]_vars

(***************************************************************************)
(* SpecSelCached: as SpecSel, with example lists also put into the cache   *)
(* directly, so that a selection finds lists of more than one example.     *)
(***************************************************************************)
NextSelCached ==
    \/ \E r \in SelRequests, e \in ExampleLists :
           /\ nops < MaxSelOps
           /\ CachePut("p1", r[1], r[2], e, Rat(1, 2))
    \/ \E u \in {"u1", "u2"}, r \in SelRequests, k \in {1, 3} :
           /\ nops < MaxSelOps
           /\ SelectCall("p1", u, r[1], r[2], k)
    \/ \E args \in HistoryTripArgs :
           /\ nops < MaxSelOps
           /\ AddTripCall("p1", "u1", args)
    \/ AddTripLoaded("p1")
    \/ AddTripSaved("p1")
    \/ SelectRecentLoaded("p1")
    \/ SelectSummaryLoaded("p1")

SpecSelCached == Init /\ [][NextSelCached]_vars

(***************************************************************************)
(* SpecSelStale: one caller makes add_trip and select_examples_smart calls *)
(* for one user and clears the cache, one call after the other; the        *)
(* requests have more fingerprints than the cache holds.                   *)
(***************************************************************************)
StaleTripArgs ==
    { TripArgs(TokyoJapan, SushiMuseums, 5, 900, 40),
      TripArgs(tokyo, SushiWineExtra, 0, 0, 0) }

StaleRequests ==
    { <<TokyoJapan, SushiMuseums>>, <<TokyoJapan, Empty>>, <<tokyo, SushiWineExtra>> }

NextSelStale ==
    \/ \E args \in StaleTripArgs :
           /\ nops < MaxStaleOps
           /\ AddTripCall("p1", "u1", args)
    \/ \E r \in StaleRequests :
           /\ nops < MaxStaleOps
           /\ SelectCall("p1", "u1", r[1], r[2], 3)
    \/ nops < MaxStaleOps /\ CacheClear("p1")
    \/ AddTripLoaded("p1")
    \/ AddTripSaved("p1")
    \/ SelectRecentLoaded("p1")
    \/ SelectSummaryLoaded("p1")

SpecSelStale == Init /\ [][NextSelStale]_vars

(***************************************************************************)
(* SpecKey: one caller puts lists under some requests and gets under        *)
(* others, whose words differ from those of the puts in case, in number and *)
(* after the fifth word.                                                    *)
(***************************************************************************)
\* "S M T J P x" and "s m t j"
PutPreferences ==
    { <<"S", " ", "M", " ", "T", " ", "J", " ", "P", " ", "x">>,
      <<"s", " ", "m", " ", "t", " ", "j">> }

\* "s m t j p y z", "s  m t j p", "S M T J" and "s m t j x"
GetPreferences ==
    { <<"s", " ", "m", " ", "t", " ", "j", " ", "p", " ", "y", " ", "z">>,
      <<"s", " ", " ", "m", " ", "t", " ", "j", " ", "p">>,
      <<"S", " ", "M", " ", "T", " ", "J">>,
      <<"s", " ", "m", " ", "t", " ", "j", " ", "x">> }

NextKey ==
    \/ \E d \in {TokyoJapan, Paris}, pr \in PutPreferences, e \in ExampleLists :
           nops < MaxKeyOps /\ CachePut("p1", d, pr, e, Rat(1, 2))
    \/ \E d \in {lower(TokyoJapan), tokyo}, pr \in GetPreferences :
           nops < MaxKeyOps /\ CacheGet("p1", d, pr)

SpecKey == Init /\ [][NextKey]_vars

(***************************************************************************)
(* The properties.  Each is stated about the last call's return value      *)
(* ret["p1"] and the state it returned in.                                 *)
(***************************************************************************)
Min(a, b) == IF a <= b THEN a ELSE b

\* the last n elements of seq, all of it when it is shorter
LastN(seq, n) == SubSeq(seq, Len(seq) - Min(n, Len(seq)) + 1, Len(seq))

\* the add_trip arguments a stored trip was built from
ArgsOf(trip) ==
    [ k \in {"destination", "preferences", "satisfaction_rating", "token_usage",
             "latency_ms"} |-> trip[k] ]

\* the persisted recent-trip window of u, as add_trip arguments
WindowArgs(u) ==
    IF u \in DOMAIN historyFile
    THEN [i \in 1..Len(historyFile[u].recentTrips) |->
             ArgsOf(historyFile[u].recentTrips[i])]
    ELSE <<>>

CachedKeys == ToSet(Keys(exampleCache.cache))

\* the select_examples_smart call that returned last did not return from the cache
SelectMissed ==
    /\ ret["p1"].op = "select"
    /\ ~Get(ret["p1"].value, "from_cache", FALSE)

\* the recent trips the store holds under the caller's own user id
OwnTrips ==
    LET u == ret["p1"].call.user_id
    IN  IF u \in DOMAIN historyFile THEN historyFile[u].recentTrips ELSE <<>>

ScoreOf(trip) ==
    calculate_similarity_score(trip, ret["p1"].call.destination,
                               ret["p1"].call.preferences)

\* the largest score among OwnTrips, as numerator and denominator
BestOwnScore ==
    LET scores == {ScoreOf(OwnTrips[i]) : i \in 1..Len(OwnTrips)}
    IN  CHOOSE b \in scores : \A x \in scores : x[1] * b[2] <= b[1] * x[2]

\* C1: once two concurrent add_trip calls have both returned, the persisted
\* windows hold every trip added: per user as many trips as add_trip calls
\* returned (the window is not full here), each call's trip among them.
C1_NoLostUpdate ==
    (\A p \in Procs : pc[p] = "idle") =>
        \A u \in Users :
            /\ Len(WindowArgs(u)) = Min(Len(addedLog[u]), MAX_RECENT_TRIPS)
            /\ Len(addedLog[u]) <= MAX_RECENT_TRIPS =>
                   ToSet(addedLog[u]) \subseteq ToSet(WindowArgs(u))

\* C2: in every reachable state the cache holds at most max_size fingerprints,
\* each once.
C2_SizeAtMostMax ==
    /\ Len(exampleCache.cache) <= max_size
    /\ Cardinality(CachedKeys) = Len(exampleCache.cache)

\* a put has just evicted: the cache is full and a fingerprint put earlier is gone
C2_Witness ==
    /\ ret["p1"].op = "put"
    /\ Len(exampleCache.cache) = max_size
    /\ \E k \in DOMAIN inserted : k \notin CachedKeys

\* C3: a put removes a fingerprint other than its own only when the cache was
\* full and its own fingerprint new; it removes exactly one, the one whose last
\* get hit or put is older than that of every other cached fingerprint; and a
\* put of a new fingerprint into a full cache always removes one.
C3_EvictsLeastRecentlyTouched ==
    [][ ret'["p1"].op = "put" /\ nops' = nops + 1 =>
          LET key == _generate_key(ret'["p1"].destination, ret'["p1"].preferences)
              before == CachedKeys
              after == ToSet(Keys(exampleCache'.cache))
              gone == before \ after
          IN  /\ after \ before \subseteq {key}
              /\ (key \notin before /\ Len(exampleCache.cache) = max_size)
                     => Cardinality(gone) = 1
              /\ \A k \in gone :
                     /\ gone = {k}
                     /\ key \notin before
                     /\ Len(exampleCache.cache) = max_size
                     /\ \A j \in before \ {k} : touched[k] < touched[j] ]_vars

\* an overflowing put has evicted k, put after j and never got since, while j,
\* touched by a get after k was put, survives
C3_Witness ==
    /\ ret["p1"].op = "put"
    /\ Len(exampleCache.cache) = max_size
    /\ \E j \in CachedKeys, k \in DOMAIN inserted :
           /\ k \notin CachedKeys
           /\ inserted[j] < inserted[k]
           /\ touched[k] = inserted[k]
           /\ touched[j] > touched[k]

\* C4: after any sequence of add_trip calls for one user the window holds at
\* most 10 trips and they are the last min(n, 10) trips added, in the order added.
C4_WindowIsLastTen ==
    \A u \in Users :
        /\ Len(WindowArgs(u)) <= MAX_RECENT_TRIPS
        /\ WindowArgs(u) = LastN(addedLog[u], MAX_RECENT_TRIPS)

\* more trips were added than the window holds, and the trip dropped first
\* differs from the one now oldest
C4_Witness ==
    /\ Len(addedLog["u1"]) > MAX_RECENT_TRIPS
    /\ Head(addedLog["u1"]) # Head(WindowArgs("u1"))
    /\ pc["p1"] = "idle"

C6_NoHistoryGivesNone ==
    LET r == ret["p1"]
    IN  (/\ r.op = "select"
         /\ OwnTrips = <<>>
         /\ r.call.user_id \in DOMAIN historyFile =>
                historyFile[r.call.user_id].historySummary.totalTrips = 0)
        => /\ r.value.strategy = "none"
           /\ r.value.examples = <<>>
           /\ r.value.estimated_tokens = 0

\* C7: every trip select_examples_smart returns for user u was added by
\* add_trip for u (a trip's id names the user it was added for).
C7_ExamplesAreOwn ==
    LET r == ret["p1"]
    IN  (r.op = "select" /\ r.value.strategy \in {"full", "condensed"}) =>
            \A i \in 1..Len(r.value.examples) :
                r.value.examples[i].id[2] = r.call.user_id

\* C8: calculate_similarity_score returns s with 0.0 <= s <= 1.0, whatever
\* fields the trip lacks and whatever its rating.
C8_ScoreInUnitInterval ==
    ret["p1"].op = "score" =>
        LET s == ret["p1"].score
        IN  s[2] > 0 /\ 0 <= s[1] /\ s[1] <= s[2]

\* a rating of 6 took the weighted sum above 1 and the score returned is 1
C8_Witness ==
    /\ ret["p1"].op = "score"
    /\ Get(ret["p1"].trip, "satisfaction_rating", 0) = 6
    /\ RLt(Rat(1, 1), RawScore(ret["p1"].trip, ret["p1"].destination,
                               ret["p1"].preferences))
    /\ ret["p1"].score = Rat(1, 1)

\* the trip's destination and preferences are the request's and its rating is 5
ExactMatch(trip) ==
    /\ trip.destination = ret["p1"].call.destination
    /\ trip.preferences = ret["p1"].call.preferences
    /\ trip.satisfaction_rating = 5

\* C9 as claimed: whenever the user's window holds a trip equal to the request
\* in destination and preferences and rated 5, that trip scores 1.0 and the
\* call returns "full" with exactly that trip.
C9_ExactMatchIsFull ==
    ret["p1"].op = "select" =>
        \A i \in 1..Len(OwnTrips) :
            ExactMatch(OwnTrips[i]) =>
                /\ ScoreOf(OwnTrips[i]) = Rat(1, 1)
                /\ ret["p1"].value.strategy = "full"
                /\ ret["p1"].value.examples = <<WithScore(OwnTrips[i], Rat(1, 1))>>

\* C9 amended: when moreover the request's destination holds a word and its
\* preferences a word that is no stopword, the trip scores 1.0, and on a cache
\* miss the call returns "full" with one example, the earliest trip of the
\* window that scores 1.0.
C9_ExactMatchIsFullOnMiss ==
    ret["p1"].op = "select" =>
        \A i \in 1..Len(OwnTrips) :
            (/\ ExactMatch(OwnTrips[i])
             /\ DestParts(ret["p1"].call.destination) # {}
             /\ PrefWords(ret["p1"].call.preferences) # {})
            => /\ ScoreOf(OwnTrips[i]) = Rat(1, 1)
               /\ SelectMissed =>
                     LET first == CHOOSE j \in 1..Len(OwnTrips) :
                                      /\ ScoreOf(OwnTrips[j]) = Rat(1, 1)
                                      /\ \A h \in 1..(j - 1) :
                                             ScoreOf(OwnTrips[h]) # Rat(1, 1)
                     IN  /\ ret["p1"].value.strategy = "full"
                         /\ ret["p1"].value.examples =
                                <<WithScore(OwnTrips[first], Rat(1, 1))>>

\* a miss returned "full" for a window whose exact match is not its first trip
C9_Witness ==
    /\ SelectMissed
    /\ ret["p1"].value.strategy = "full"
    /\ Len(OwnTrips) >= 2
    /\ ScoreOf(OwnTrips[1]) # Rat(1, 1)
    /\ ExactMatch(OwnTrips[2])
    /\ PrefWords(ret["p1"].call.preferences) # {}

\* C10: right after put(d, p, e), get(d, p) returns e; right after clear(),
\* get(d, p) returns None for every d and p.
C10_PutThenGetClearThenGet ==
    LET r == ret["p1"]
    IN  /\ r.op = "put" =>
               LET got == cache_get(exampleCache, r.destination, r.preferences, now)
               IN  got.found /\ got.val = r.examples
        /\ r.op = "clear" =>
               \A d \in Destinations, p \in Preferences :
                   ~cache_get(exampleCache, d, p, now).found

\* a put has replaced the examples of a fingerprint already cached, in a full
\* cache
C10_Witness ==
    LET key == _generate_key(ret["p1"].destination, ret["p1"].preferences)
    IN  /\ ret["p1"].op = "put"
        /\ Len(exampleCache.cache) = max_size
        /\ inserted[key] < clock
        /\ touched[key] = clock

\* C11: whenever a cache operation has returned, a load of the persisted
\* document rebuilds the in-memory object: the same entries in the same access
\* order and the same stats (no document yet: the object is empty).
C11_DocumentEqualsMemory ==
    _load_cache(cacheFile) = exampleCache

\* a get hit has just reordered a full cache and the document exists
C11_Witness ==
    /\ ret["p1"].op = "get"
    /\ ret["p1"].found
    /\ cacheFile.exists
    /\ Len(exampleCache.cache) = max_size
    /\ exampleCache.cache[1].key # cacheFile.cache_order[Len(cacheFile.cache_order)]
    /\ \E j \in CachedKeys :
           /\ j # _generate_key(ret["p1"].destination, ret["p1"].preferences)
           /\ inserted[j] > inserted[_generate_key(ret["p1"].destination,
                                                   ret["p1"].preferences)]

\* the add_trip arguments of the trips that have left u's window: all but the
\* last 10 added
EvictedArgs(u) ==
    SubSeq(addedLog[u], 1, Len(addedLog[u]) - Min(Len(addedLog[u]), MAX_RECENT_TRIPS))

\* C12: the destination of every trip evicted from a user's window is in the
\* user's favoriteDestinations after the add_trip that evicted it and after
\* every later add_trip (fewer than 10 destinations are in play).
C12_ArchivedDestinationKept ==
    \A u \in Users :
        \A i \in 1..Len(EvictedArgs(u)) :
            EvictedArgs(u)[i].destination \in
                ToSet(historyFile[u].historySummary.favoriteDestinations)

\* C13: the trips of a user's window have pairwise different ids, and a trip
\* added later has the greater counter in its id.
C13_IdsUniqueAndIncreasing ==
    \A u \in Users \cap DOMAIN historyFile :
        LET trips == historyFile[u].recentTrips
        IN  \A i, j \in 1..Len(trips) :
                i < j => /\ trips[i].id # trips[j].id
                         /\ trips[i].id[3] < trips[j].id[3]

\* C14: a user's totalTrips equals the number of add_trip calls that returned
\* for the user.
C14_TotalTripsCounts ==
    \A u \in Users :
        IF u \in DOMAIN historyFile
        THEN historyFile[u].historySummary.totalTrips = Len(addedLog[u])
        ELSE Len(addedLog[u]) = 0

\* C15: for a user id with no record in the store, get_user_data returns the
\* canonical empty record, get_recent_trips no trips and get_summary the empty
\* summary, whatever the other users' records hold.
C15_UnknownUserGetsEmptyRecord ==
    LET r == ret["p1"]
    IN  (/\ r.op \in {"get_user_data", "get_recent_trips", "get_summary"}
         /\ r.user_id \notin DOMAIN historyFile)
        => r.value = CASE r.op = "get_user_data" -> GuestRecord
                       [] r.op = "get_recent_trips" -> <<>>
                       [] r.op = "get_summary" -> EmptySummary

\* C16: get_recent_trips(user_id, limit=k) returns the last min(k, window size)
\* trips of the user's window in insertion order, and the whole window when the
\* limit is omitted.
C16_LimitGivesMostRecent ==
    LET r == ret["p1"]
    IN  (r.op = "get_recent_trips" /\ r.user_id \in DOMAIN historyFile) =>
            LET window == historyFile[r.user_id].recentTrips
            IN  r.value = IF r.limit = <<>> THEN window
                          ELSE LastN(window, r.limit[1])

\* C17: a damaged document never makes an operation fail: no read of the
\* history store and no add_trip ends by raising, and ExampleCache loads a
\* damaged cache document as the empty cache.
C17_DamagedDocumentNeverRaises ==
    /\ ret["p1"].op # "raised"
    /\ cacheFile = TruncatedCacheFile => _load_cache(cacheFile) = EmptyCache

\* what a load of each document returns
Durable ==
    [ history |-> _load_history_sync(historyFile, historyFault),
      cache |-> _load_cache(cacheFile) ]

\* a step in which a write of a document fails
SaveFails ==
    \/ \E at \in FailPoints : AddTripSaveFails("p1", at)
    \/ \E at \in FailPoints :
           CachePutSaveFails("p1", TokyoJapan, SushiMuseums, Example2, Rat(1, 2), at)

\* C18: a write of the history document or of the cache document that fails
\* leaves the document as it was: a load after the failed write returns what a
\* load before it returned.
C18_FailedSaveKeepsDocument == [][SaveFails => Durable' = Durable]_vars

\* the body leaves out one of destination, travel dates and preferences
OmitsRequiredField(body) ==
    \/ body.destination = <<>>
    \/ body.travel_dates = <<>>
    \/ body.preferences = <<>>

\* C19: a travel request whose body leaves out the destination, the travel
\* dates or the preferences is answered 422 and never reaches
\* process_travel_request_new.
C19_MissingFieldIsRejected ==
    LET r == ret["p1"]
    IN  (/\ r.op \in {"travel_assistant", "process_travel_request_new"}
         /\ OmitsRequiredField(r.body))
        => (r.op = "travel_assistant" /\ r.status_code = 422)

\* a step in which select_examples_smart returns to p1 right after a return of
\* select_examples_smart with the same arguments: no add_trip returned between
\* the two, so the history is the same for both
SelectRepeated ==
    /\ ret["p1"].op = "select"
    /\ ret'["p1"].op = "select"
    /\ ret'["p1"] # ret["p1"]
    /\ ret'["p1"].call = ret["p1"].call

\* C20: with the user's history unchanged, two consecutive calls of
\* select_examples_smart with the same arguments return the same strategy, the
\* same examples and the same estimated_tokens.
C20_SelectIsRepeatable ==
    [][SelectRepeated =>
          /\ ret'["p1"].value.strategy = ret["p1"].value.strategy
          /\ ret'["p1"].value.examples = ret["p1"].value.examples
          /\ ret'["p1"].value.estimated_tokens = ret["p1"].value.estimated_tokens]_vars

\* a step of a select_examples_smart call of p1 that did not return from the
\* cache: the call itself, the return of get_recent_trips, the return of
\* get_summary
SelectMissStep ==
    \/ pc["p1"] = "idle" /\ pc'["p1"] = "sel_recent"
    \/ pc["p1"] \in {"sel_recent", "sel_summary"}

\* the step in which such a call returns a selection
SelectMissReturns == pc["p1"] = "sel_summary" /\ ret'["p1"].op = "select"

\* C21: a select_examples_smart call that misses the cache changes the cache
\* exactly when it returns strategy "full" or "condensed", and then the entry of
\* the request's fingerprint holds the examples returned; with "summary" or
\* "none" the entries, their order, the stats and the document stay as they
\* were.  No step of the call changes the history document.
C21_MissWritesCacheOnlyForFullOrCondensed ==
    [][SelectMissStep =>
          /\ historyFile' = historyFile
          /\ historyFault' = historyFault
          /\ IF SelectMissReturns
                /\ ret'["p1"].value.strategy \in {"full", "condensed"}
             THEN LET call == ret'["p1"].call
                      key == _generate_key(call.destination, call.preferences)
                  IN  /\ exampleCache' # exampleCache
                      /\ HasKey(exampleCache'.cache, key)
                      /\ Lookup(exampleCache'.cache, key) = ret'["p1"].value.examples
             ELSE /\ exampleCache' = exampleCache
                  /\ cacheFile' = cacheFile]_vars

\* a call that missed the cache has returned "condensed" and the cache holds
\* its examples under the request's fingerprint
C21_Witness ==
    /\ ret["p1"].op = "select"
    /\ ret["p1"].value.strategy = "condensed"
    /\ ~ret["p1"].value.from_cache
    /\ Lookup(exampleCache.cache,
              _generate_key(ret["p1"].call.destination, ret["p1"].call.preferences))
           = ret["p1"].value.examples

\* the step in which p1 calls select_examples_smart: it returns from the cache
\* or goes on to get_recent_trips
SelectCallStep ==
    /\ pc["p1"] = "idle"
    /\ nops' = nops + 1
    /\ \/ pc'["p1"] = "sel_recent"
       \/ pc'["p1"] = "idle" /\ ret'["p1"].op = "select"

\* the arguments of that call
SelectCallArgs == IF pc'["p1"] = "sel_recent" THEN frame'["p1"] ELSE ret'["p1"].call

\* the list cached for the call's fingerprint before the call, <<>> if none
CachedForCall ==
    LET key == _generate_key(SelectCallArgs.destination, SelectCallArgs.preferences)
    IN  IF HasKey(exampleCache.cache, key) THEN Lookup(exampleCache.cache, key)
        ELSE <<>>

\* C22: when the cache holds a non-empty list for the request's fingerprint
\* (and max_examples >= 1), select_examples_smart returns at once, without a
\* read of the history: strategy "condensed", from_cache true, ranking_info
\* attached, at most max_examples examples, each of the cached list, and
\* estimated_tokens = 200 * the number of examples.
C22_CachedListIsReturnedCondensed ==
    [][(SelectCallStep /\ CachedForCall # <<>>) =>
          /\ pc'["p1"] = "idle"
          /\ LET value == ret'["p1"].value
             IN  /\ value.strategy = "condensed"
                 /\ value.from_cache
                 /\ value.ranking_info # <<>>
                 /\ ~value.ranking_info[1].empty
                 /\ Len(value.examples) >= 1
                 /\ Len(value.examples) <= SelectCallArgs.max_examples
                 /\ ToSet(value.examples) \subseteq ToSet(CachedForCall)
                 /\ value.estimated_tokens = 200 * Len(value.examples)]_vars

\* a call with max_examples = 1 returned one example of a cached list of two
C22_Witness ==
    /\ ret["p1"].op = "select"
    /\ ret["p1"].value.strategy = "condensed"
    /\ ret["p1"].value.from_cache
    /\ Len(ret["p1"].value.examples) = 1
    /\ Len(Lookup(exampleCache.cache,
                  _generate_key(ret["p1"].call.destination,
                                ret["p1"].call.preferences))) = 2

\* the selection p1 was returned was made from the history of a user with a
\* record of its own, with the given strategy
SelectedFromOwn(strategy) ==
    /\ ret["p1"].op = "select"
    /\ ret["p1"].value.strategy = strategy
    /\ ~ret["p1"].value.from_cache
    /\ ret["p1"].call.user_id \in DOMAIN historyFile

\* OwnTrips[i] as the selection returns it, with its score
Scored(i) == WithScore(OwnTrips[i], ScoreOf(OwnTrips[i]))

\* OwnTrips[i] ranks before OwnTrips[j]: a larger score, or the same score and
\* earlier in the window
RanksBefore(i, j) ==
    \/ RLt(ScoreOf(OwnTrips[j]), ScoreOf(OwnTrips[i]))
    \/ ScoreOf(OwnTrips[i]) = ScoreOf(OwnTrips[j]) /\ i < j

\* C23: a selection made from the history with strategy "full" returns exactly
\* one trip, of the largest similarity score among the user's recent trips and
\* the earliest of the window among those of that score, with estimated_tokens
\* 800.
C23_FullIsEarliestBest ==
    SelectedFromOwn("full") =>
        /\ Len(ret["p1"].value.examples) = 1
        /\ ret["p1"].value.estimated_tokens = 800
        /\ \E i \in 1..Len(OwnTrips) :
              /\ ret["p1"].value.examples[1] = Scored(i)
              /\ \A j \in 1..Len(OwnTrips) : j # i => RanksBefore(i, j)

\* "full" was chosen among two trips of the same, largest score
C23_Witness ==
    /\ SelectedFromOwn("full")
    /\ Len(OwnTrips) = 2
    /\ OwnTrips[1] # OwnTrips[2]
    /\ ScoreOf(OwnTrips[1]) = ScoreOf(OwnTrips[2])

\* C24: a selection made from the history with strategy "condensed" returns the
\* min(max_examples, number of recent trips) trips of the largest scores, in
\* descending score order with equal scores in window order, and
\* estimated_tokens = 200 * the number of examples.
C24_CondensedIsTopK ==
    SelectedFromOwn("condensed") =>
        LET examples == ret["p1"].value.examples
            n == Min(ret["p1"].call.max_examples, Len(OwnTrips))
        IN  /\ Len(examples) = n
            /\ ret["p1"].value.estimated_tokens = 200 * n
            /\ \E idx \in [1..n -> 1..Len(OwnTrips)] :
                  /\ \A k \in 1..n : examples[k] = Scored(idx[k])
                  /\ \A k, l \in 1..n : k < l => RanksBefore(idx[k], idx[l])
                  /\ \A j \in 1..Len(OwnTrips) :
                        (\A k \in 1..n : idx[k] # j) =>
                            \A k \in 1..n : RanksBefore(idx[k], j)

\* "condensed" with max_examples = 1 returned the second trip of a window of
\* two: the trips were reordered by score and cut to max_examples
C24_Witness ==
    /\ SelectedFromOwn("condensed")
    /\ Len(OwnTrips) = 2
    /\ ret["p1"].call.max_examples = 1
    /\ ret["p1"].value.examples = <<Scored(2)>>
    /\ Scored(2) # Scored(1)

\* the tokens of a string: its maximal runs of characters other than white
\* space and commas, in lower case
Tokens(s) ==
    LET Sep(i) == s[i] \in Whitespace \cup {","}
    IN  { [k \in 1..(j - i + 1) |-> LowerChar(s[i + k - 1])] :
            <<i, j>> \in { ij \in (1..Len(s)) \X (1..Len(s)) :
                            /\ ij[1] <= ij[2]
                            /\ \A k \in ij[1]..ij[2] : ~Sep(k)
                            /\ ij[1] = 1 \/ Sep(ij[1] - 1)
                            /\ ij[2] = Len(s) \/ Sep(ij[2] + 1) } }

\* 0.4 * |a \cap b| / |a \cup b|, and 0 when the sets do not intersect
WeightedJaccard(a, b) ==
    IF a \cap b = {} THEN Rat(0, 1)
    ELSE Rat(4 * Cardinality(a \cap b), 10 * Cardinality(a \cup b))

\* C25: calculate_similarity_score is min(1, D + P + R): D is 0.4 times the
\* Jaccard index of the token sets of the two destinations, P 0.4 times that of
\* the two preference token sets without the stopwords, R is 0.2 * rating / 5
\* for a rating above 0 and 0 otherwise; an empty (or absent) destination or
\* preferences string adds 0.
C25_ScoreIsCappedWeightedSum ==
    ret["p1"].op = "score" =>
        LET trip == ret["p1"].trip
            D == WeightedJaccard(Tokens(Get(trip, "destination", <<>>)),
                                 Tokens(ret["p1"].destination))
            P == WeightedJaccard(Tokens(Get(trip, "preferences", <<>>)) \ stopwords,
                                 Tokens(ret["p1"].preferences) \ stopwords)
            rating == Get(trip, "satisfaction_rating", 0)
            R == IF rating > 0 THEN Rat(2 * rating, 50) ELSE Rat(0, 1)
            sum == RAdd(RAdd(D, P), R)
        IN  ret["p1"].score = IF RLe(Rat(1, 1), sum) THEN Rat(1, 1) ELSE sum

\* a score below 1 made of a destination part, a preference part and a rating
\* part, for strings that differ in case, order and separators
C25_Witness ==
    /\ ret["p1"].op = "score"
    /\ ret["p1"].destination = TokyoJapan
    /\ Get(ret["p1"].trip, "destination", <<>>) = tokyo
    /\ ret["p1"].preferences = SushiMuseums
    /\ Get(ret["p1"].trip, "preferences", <<>>) = SushiWineExtra
    /\ Get(ret["p1"].trip, "satisfaction_rating", 0) = 3
    /\ ret["p1"].score = RAdd(RAdd(Rat(2, 10), Rat(1, 10)), Rat(12, 100))

\* the stats of the fingerprints other than key
OtherStats(stats, key) == [k \in DOMAIN stats \ {key} |-> stats[k]]

\* C26: get on a cached fingerprint returns the stored list, leaves every
\* stored list as it was, makes the fingerprint the most recently used and
\* raises its usage_count by exactly 1; get on a fingerprint not cached returns
\* None and leaves entries, order, stats and the document unchanged.
C26_GetHitCountsMissChangesNothing ==
    [][ ret'["p1"].op = "get" /\ nops' = nops + 1 =>
          LET key == _generate_key(ret'["p1"].destination, ret'["p1"].preferences)
              before == exampleCache
              after == exampleCache'
          IN  IF HasKey(before.cache, key)
              THEN /\ ret'["p1"].found
                   /\ ret'["p1"].val = Lookup(before.cache, key)
                   /\ Lookup(after.cache, key) = Lookup(before.cache, key)
                   /\ after.cache[Len(after.cache)].key = key
                   /\ DelKey(after.cache, key) = DelKey(before.cache, key)
                   /\ after.stats[key].usage_count
                          = Get(Get(before.stats, key, <<>>), "usage_count", 0) + 1
                   /\ OtherStats(after.stats, key) = OtherStats(before.stats, key)
              ELSE /\ ~ret'["p1"].found
                   /\ after = before
                   /\ cacheFile' = cacheFile ]_vars

\* a get has hit the older of two cached fingerprints, which is now the last of
\* the order
C26_Witness ==
    /\ ret["p1"].op = "get"
    /\ ret["p1"].found
    /\ Len(exampleCache.cache) = 2
    /\ LET key == _generate_key(ret["p1"].destination, ret["p1"].preferences)
       IN  /\ exampleCache.cache[2].key = key
           /\ inserted[key] < inserted[exampleCache.cache[1].key]
           /\ touched[key] = clock

\* the fingerprint of the cache operation p1 was just returned from
RetKey == _generate_key(ret'["p1"].destination, ret'["p1"].preferences)

\* the step is a put or an update_satisfaction of p1
ScoreStep ==
    /\ ret'["p1"].op \in {"put", "update_satisfaction"}
    /\ nops' = nops + 1

\* the step is a get of p1 (alone or inside get_ranked_examples) that finds
\* fingerprint k cached
GetHits(k) ==
    /\ ret'["p1"].op \in {"get", "get_ranked_examples"}
    /\ nops' = nops + 1
    /\ RetKey = k
    /\ HasKey(exampleCache.cache, k)

\* C27: put and update_satisfaction on a fingerprint with stats (satisfaction
\* old, usage_count c) store (old * c + incoming) / (c + 1) and keep c, so with
\* c = 0 the incoming score replaces the stored one; a put of a fingerprint
\* without stats stores the incoming score with usage_count 0; and c is the
\* number of get hits since: a usage_count changes only by 1 on a get hit.
C27_SatisfactionIsRunningAverage ==
    [][ /\ ScoreStep =>
            LET before == exampleCache.stats
                after == exampleCache'.stats
                incoming == ret'["p1"].satisfaction_score
            IN  IF RetKey \in DOMAIN before
                THEN LET old == Get(before[RetKey], "satisfaction_score", Rat(1, 2))
                         c == before[RetKey].usage_count
                     IN  /\ after[RetKey].satisfaction_score
                                = Rat(old[1] * c * incoming[2] + incoming[1] * old[2],
                                      old[2] * incoming[2] * (c + 1))
                         /\ after[RetKey].usage_count = c
                         /\ c = 0 => after[RetKey].satisfaction_score = incoming
                ELSE ret'["p1"].op = "put" =>
                         /\ after[RetKey].satisfaction_score = incoming
                         /\ after[RetKey].usage_count = 0
        /\ \A k \in DOMAIN exampleCache.stats \cap DOMAIN exampleCache'.stats :
               exampleCache'.stats[k].usage_count
                   = exampleCache.stats[k].usage_count + IF GetHits(k) THEN 1 ELSE 0
      ]_vars

\* update_satisfaction(1.0) after one get hit has blended 0.5 into 0.75
C27_Witness ==
    /\ ret["p1"].op = "update_satisfaction"
    /\ LET key == _generate_key(ret["p1"].destination, ret["p1"].preferences)
       IN  /\ key \in DOMAIN exampleCache.stats
           /\ exampleCache.stats[key].usage_count = 1
           /\ exampleCache.stats[key].satisfaction_score = Rat(3, 4)

\* C28: update_satisfaction on a fingerprint without stats changes nothing; on
\* a fingerprint with stats it changes that fingerprint's satisfaction_score
\* and nothing else: the cached lists, their order, every usage_count and the
\* stats of the other fingerprints stay as they were.
C28_UpdateChangesOnlyTheScore ==
    [][ ret'["p1"].op = "update_satisfaction" /\ nops' = nops + 1 =>
            LET before == exampleCache
                after == exampleCache'
            IN  IF RetKey \in DOMAIN before.stats
                THEN /\ after.cache = before.cache
                     /\ DOMAIN after.stats = DOMAIN before.stats
                     /\ OtherStats(after.stats, RetKey) = OtherStats(before.stats, RetKey)
                     /\ DOMAIN after.stats[RetKey]
                            = DOMAIN before.stats[RetKey] \cup {"satisfaction_score"}
                     /\ \A f \in DOMAIN before.stats[RetKey] \ {"satisfaction_score"} :
                            after.stats[RetKey][f] = before.stats[RetKey][f]
                ELSE /\ after = before
                     /\ cacheFile' = cacheFile ]_vars

\* update_satisfaction changed the score of the older of two cached
\* fingerprints, which is still the first of the order
C28_Witness ==
    /\ ret["p1"].op = "update_satisfaction"
    /\ Len(exampleCache.cache) = 2
    /\ LET key == _generate_key(ret["p1"].destination, ret["p1"].preferences)
       IN  /\ exampleCache.cache[1].key = key
           /\ exampleCache.stats[key].satisfaction_score = Rat(1, 1)

\* the largest element of a non-empty set of integers
MaxOf(S) == CHOOSE m \in S : \A x \in S : x <= m

\* 0.4*s + 0.3*u/max(m,1) + 0.3*max(0, 1 - a/30) for the stats of fingerprint
\* key in stats, at time t (in days)
CompositeOf(stats, key, t) ==
    LET s == Get(stats[key], "satisfaction_score", Rat(1, 2))
        u == stats[key].usage_count
        m == MaxOf({stats[k].usage_count : k \in DOMAIN stats} \cup {1})
        a == t - stats[key].created_at
        recency == IF a >= 30 THEN Rat(0, 1) ELSE Rat(30 - a, 30)
    IN  RAdd(RAdd(RMul(Rat(4, 10), s), Rat(3 * u, 10 * m)), RMul(Rat(3, 10), recency))

\* C29: get_ranked_examples on a cached fingerprint reports, for every example
\* returned, the composite score 0.4*s + 0.3*u/max(m,1) + 0.3*max(0, 1 - a/30)
\* of the stats the fingerprint has when the call is made (reported to three
\* decimals), and a recency that is not negative.
C29_CompositeFromStatsAtCall ==
    [][ (/\ ret'["p1"].op = "get_ranked_examples"
         /\ nops' = nops + 1
         /\ ret'["p1"].examples # <<>>
         /\ RetKey \in DOMAIN exampleCache.stats) =>
            \A i \in 1..Len(ret'["p1"].ranking_info.scores) :
                LET reported == ret'["p1"].ranking_info.scores[i]
                IN  /\ reported.composite
                           = Round3(CompositeOf(exampleCache.stats, RetKey, now))
                    /\ RLe(Rat(0, 1), reported.recency) ]_vars

\* C30: get_ranked_examples with top_k >= 0 on a fingerprint cached with a
\* list of n >= 1 examples returns the first min(top_k, n) examples of the list
\* in their stored order, with total_examples_evaluated = n and
\* top_examples_selected = the number of scores = the number of examples
\* returned; on a fingerprint not cached it returns no examples and an empty
\* info object.
C30_RankedIsPrefixOfStoredList ==
    [][ ret'["p1"].op = "get_ranked_examples" /\ nops' = nops + 1 =>
            LET r == ret'["p1"]
            IN  IF HasKey(exampleCache.cache, RetKey)
                THEN LET list == Lookup(exampleCache.cache, RetKey)
                         n == Len(list)
                         k == Min(r.top_k, n)
                     IN  n >= 1 =>
                             /\ r.examples = SubSeq(list, 1, k)
                             /\ ~r.ranking_info.empty
                             /\ r.ranking_info.total_examples_evaluated = n
                             /\ r.ranking_info.top_examples_selected = k
                             /\ Len(r.ranking_info.scores) = k
                ELSE /\ r.examples = <<>>
                     /\ r.ranking_info = [empty |-> TRUE] ]_vars

\* get_ranked_examples with top_k = 0 on a cached list of two examples
C30_Witness ==
    /\ ret["p1"].op = "get_ranked_examples"
    /\ ret["p1"].top_k = 0
    /\ ret["p1"].examples = <<>>
    /\ ~ret["p1"].ranking_info.empty
    /\ ret["p1"].ranking_info.total_examples_evaluated = 2

\* the position of the first occurrence of x in seq
FirstAt(seq, x) == CHOOSE i \in 1..Len(seq) : seq[i] = x /\ \A j \in 1..(i - 1) : seq[j] # x

\* x is ranked before y: it occurs more often in seq, or as often and earlier
Outranks(seq, x, y) ==
    \/ Count(seq, x) > Count(seq, y)
    \/ Count(seq, x) = Count(seq, y) /\ FirstAt(seq, x) < FirstAt(seq, y)

\* list holds the first n distinct elements of seq by descending frequency,
\* ties by first occurrence
IsRanking(list, seq, n) ==
    /\ Len(list) = Min(Cardinality(ToSet(seq)), n)
    /\ \A i \in 1..Len(list) :
           /\ list[i] \in ToSet(seq)
           /\ Cardinality({y \in ToSet(seq) : Outranks(seq, y, list[i])}) = i - 1

\* the destinations of u's recent window, oldest first
WindowDestinations(u) ==
    [i \in 1..Len(historyFile[u].recentTrips) |-> historyFile[u].recentTrips[i].destination]

\* the lower-cased preference words of u's recent window, split at whitespace
\* and commas, oldest trip first
WindowWords(u) ==
    Concat([i \in 1..Len(historyFile[u].recentTrips) |->
               split(replace(lower(historyFile[u].recentTrips[i].preferences), ",", " "))])

\* C31: after every add_trip, favoriteDestinations is the list of the distinct
\* destinations of the recent window by descending frequency, ties by first
\* occurrence, at most 10 of them, and preferencePatterns is the same ranking
\* of the window's lower-cased whitespace/comma preference words, at most 20 of
\* them; what archival contributed is overridden.
C31_SummaryListsRankTheWindow ==
    (ret["p1"].op = "add_trip" /\ pc["p1"] = "idle") =>
        LET summary == historyFile[ret["p1"].user_id].historySummary
        IN  /\ Len(summary.favoriteDestinations) <= 10
            /\ Len(summary.preferencePatterns) <= 20
            /\ IsRanking(summary.favoriteDestinations,
                         WindowDestinations(ret["p1"].user_id), 10)
            /\ IsRanking(summary.preferencePatterns,
                         WindowWords(ret["p1"].user_id), 20)

\* the window holds more than 20 distinct words, and the trip evicted first
\* went to a destination no trip of the window goes to
C31_Witness ==
    /\ ret["p1"].op = "add_trip"
    /\ pc["p1"] = "idle"
    /\ Len(addedLog["u1"]) > MAX_RECENT_TRIPS
    /\ Cardinality(ToSet(WindowWords("u1"))) > 20
    /\ Len(historyFile["u1"].historySummary.preferencePatterns) = 20
    /\ addedLog["u1"][1].destination \notin ToSet(WindowDestinations("u1"))

\* the positive values of field in u's recent window
WindowPositive(u, field) ==
    LET trips == historyFile[u].recentTrips
    IN  [i \in {j \in 1..Len(trips) : trips[j][field] > 0} |-> trips[i][field]]

\* the sum of the values of a function with a finite domain
RECURSIVE Total(_)
Total(f) ==
    IF DOMAIN f = {} THEN 0
    ELSE LET i == CHOOSE j \in DOMAIN f : TRUE
         IN  f[i] + Total([j \in DOMAIN f \ {i} |-> f[j]])

\* C32: after every add_trip, avgTokenUsage and avgLatencyMs are the mean,
\* truncated to an integer, of the positive token_usage and latency_ms values
\* of the recent window, and avgSatisfactionRating is the mean of its positive
\* ratings; a window without a positive value leaves the average at the value
\* no trip has influenced, so that an evicted trip has no part in it.
C32_AveragesAreOfTheWindow ==
    (ret["p1"].op = "add_trip" /\ pc["p1"] = "idle") =>
        LET u == ret["p1"].user_id
            summary == historyFile[u].historySummary
            ratings == WindowPositive(u, "satisfaction_rating")
            tokens == WindowPositive(u, "token_usage")
            latencies == WindowPositive(u, "latency_ms")
            Mean(f) == Total(f) \div Cardinality(DOMAIN f)
        IN  /\ summary.avgTokenUsage =
                   IF DOMAIN tokens # {} THEN Mean(tokens) ELSE EmptySummary.avgTokenUsage
            /\ summary.avgLatencyMs =
                   IF DOMAIN latencies # {} THEN Mean(latencies)
                   ELSE EmptySummary.avgLatencyMs
            /\ summary.avgSatisfactionRating =
                   IF DOMAIN ratings # {}
                   THEN Rat(Total(ratings), Cardinality(DOMAIN ratings))
                   ELSE EmptySummary.avgSatisfactionRating

\* the coroutines with a read or a write of the history document in progress
InFileOperation ==
    {p \in Procs : pc[p] \in {"add_load", "add_save", "add_dump", "read_load",
                              "sel_recent", "sel_summary", "proc_load"}}

\* the coroutines whose load of the history document is in progress
Loading ==
    {p \in Procs : pc[p] \in {"add_load", "read_load", "sel_recent", "sel_summary",
                              "proc_load"}}

\* C33: at most one load or save of the history document is in progress at any
\* time, whatever the interleaving of concurrent get_user_data,
\* get_recent_trips, get_summary and add_trip calls, and while a load is in
\* progress the document is not one that a save has emptied and not yet
\* written.
C33_FileOperationsExclude ==
    /\ Cardinality(InFileOperation) <= 1
    /\ Loading # {} => historyFault = "none"

\* two coroutines wait for the lock while a third is writing the document
C33_Witness ==
    /\ Len(waiters) = 2
    /\ \E p \in Procs : pc[p] = "add_dump"
    /\ \E p \in Procs : pc[p] = "read_load_wait"
    /\ \E p \in Procs : pc[p] = "add_load_wait"

\* the step is a put of a fingerprint the full cache does not hold
OverflowStep ==
    /\ Len(exampleCache.cache) = max_size
    /\ ToSet(Keys(exampleCache'.cache)) \ CachedKeys # {}

\* the step is a call of clear
ClearStep == ret'["p1"].op = "clear" /\ nops' = nops + 1

\* C34: a non-empty list cached for a fingerprint stays as it is through every
\* call, add_trip included, until an overflowing put evicts it or clear
\* removes it, and a select_examples_smart call for the fingerprint returns
\* its first max_examples examples without a read of the history.
C34_CachedExamplesOutliveHistory ==
    [][ /\ \A k \in CachedKeys :
               Lookup(exampleCache.cache, k) # <<>> =>
                   IF HasKey(exampleCache'.cache, k)
                   THEN Lookup(exampleCache'.cache, k) = Lookup(exampleCache.cache, k)
                   ELSE OverflowStep \/ ClearStep
        /\ (SelectCallStep /\ CachedForCall # <<>>) =>
               /\ pc'["p1"] = "idle"
               /\ ret'["p1"].value.examples =
                      Prefix(CachedForCall, SelectCallArgs.max_examples) ]_vars

\* a call returned cached examples that a selection from the user's history
\* as it is now would not return
C34_Witness ==
    /\ pc["p1"] = "idle"
    /\ ret["p1"].op = "select"
    /\ "from_cache" \in DOMAIN ret["p1"].value
    /\ ret["p1"].value.from_cache
    /\ LET call == ret["p1"].call
           user == UserData(historyFile, call.user_id)
       IN  ret["p1"].value.examples #
               SelectFromHistory(user.recentTrips, user.historySummary,
                                 call.destination, call.preferences,
                                 call.max_examples).value.examples

\* C35: from an empty cache, after every call of get, put,
\* get_ranked_examples, update_satisfaction and clear the fingerprints with
\* stats are the fingerprints with cached examples, and a put of a fingerprint
\* that is not cached (never put, evicted or cleared) gives it new stats:
\* usage_count 0, the satisfaction score of the put, never used.
C35_StatsFollowEntries ==
    [][ /\ DOMAIN exampleCache'.stats = ToSet(Keys(exampleCache'.cache))
        /\ (ret'["p1"].op = "put" /\ nops' = nops + 1
               /\ ~HasKey(exampleCache.cache, RetKey)) =>
               exampleCache'.stats[RetKey] =
                   [ usage_count |-> 0,
                     satisfaction_score |-> ret'["p1"].satisfaction_score,
                     created_at |-> now,
                     last_used |-> <<>> ] ]_vars

\* four puts, no other call: the fingerprint put first was evicted by the
\* third put and has just been put again
C35_Witness ==
    /\ ret["p1"].op = "put"
    /\ nops = 4
    /\ clock = 4
    /\ {inserted[k] : k \in DOMAIN inserted} = {2, 3, 4}
    /\ exampleCache.stats[_generate_key(ret["p1"].destination,
                                        ret["p1"].preferences)].usage_count = 0

\* stats[k]["usage_count"] of the cache object ec, 0 without stats
UsageOf(ec, k) == IF k \in DOMAIN ec.stats THEN ec.stats[k].usage_count ELSE 0

\* the fingerprints with stats before or after the step
StatKeys == DOMAIN exampleCache.stats \cup DOMAIN exampleCache'.stats

\* C36: a select_examples_smart call served from the cache raises the
\* usage_count of the request's fingerprint by exactly 2 and no other, and no
\* step of a call that misses the cache raises a usage_count.
C36_ServedCallCountsTwice ==
    [][ /\ (SelectCallStep /\ pc'["p1"] = "idle") =>
               LET key == _generate_key(SelectCallArgs.destination,
                                        SelectCallArgs.preferences)
               IN  /\ ret'["p1"].value.from_cache
                   /\ UsageOf(exampleCache', key) = UsageOf(exampleCache, key) + 2
                   /\ \A k \in StatKeys \ {key} :
                          UsageOf(exampleCache', k) = UsageOf(exampleCache, k)
        /\ SelectMissStep =>
               \A k \in StatKeys : UsageOf(exampleCache', k) <= UsageOf(exampleCache, k)
      ]_vars

\* the second call served from the cache for a fingerprint has returned
C36_Witness ==
    /\ ret["p1"].op = "select"
    /\ pc["p1"] = "idle"
    /\ Get(ret["p1"].value, "from_cache", FALSE)
    /\ UsageOf(exampleCache, _generate_key(ret["p1"].call.destination,
                                           ret["p1"].call.preferences)) = 4

\* C37: with file operations that end and a fair event loop, every add_trip,
\* get_user_data, get_recent_trips and get_summary call of every concurrent
\* caller returns, and no coroutine waits for the lock it holds.
C37_EveryCallReturns ==
    /\ [](\A i \in 1..Len(waiters) : waiters[i] # lock)
    /\ \A p \in Procs : (pc[p] # "idle") ~> (pc[p] = "idle")

\* an add_trip that has loaded the document queues for its save behind
\* another caller, while a third coroutine holds the lock
C37_Witness ==
    /\ Len(waiters) = 2
    /\ \E p \in Procs : pc[p] = "add_save_wait" /\ waiters[2] = p
    /\ lock \in Procs

\* the first five whitespace-separated words of s, each in lower case
FirstFiveWords(s) == [i \in 1..Min(Len(split(s)), 5) |-> lower(split(s)[i])]

\* the two requests have destinations equal ignoring case and preferences
\* whose first five words are equal ignoring case
SameUpToFiveWords(d1, pr1, d2, pr2) ==
    /\ lower(d1) = lower(d2)
    /\ FirstFiveWords(pr1) = FirstFiveWords(pr2)

\* C38: a get under a request returns the list that the put before it stored
\* under another request whenever the two destinations are equal ignoring case
\* and the first five words of the two preferences are equal ignoring case,
\* whatever follows the fifth word.
C38_FiveWordsAddressTheEntry ==
    [][ ( /\ ret["p1"].op = "put"
          /\ ret'["p1"].op = "get"
          /\ SameUpToFiveWords(ret["p1"].destination, ret["p1"].preferences,
                               ret'["p1"].destination, ret'["p1"].preferences) ) =>
          /\ ret'["p1"].found
          /\ ret'["p1"].val = ret["p1"].examples
          /\ _generate_key(ret["p1"].destination, ret["p1"].preferences) =
                 _generate_key(ret'["p1"].destination, ret'["p1"].preferences) ]_vars

\* a get whose preferences have seven words has returned a list; the puts
\* have six words or four, in the other case
C38_Witness ==
    /\ ret["p1"].op = "get"
    /\ ret["p1"].found
    /\ Len(split(ret["p1"].preferences)) = 7
    /\ ret["p1"].destination = lower(TokyoJapan)
=============================================================================
